---- MODULE Spec2Model ----
(***************************************************************************)
(* A model of the TNMS port-traffic collector (noctis3713/pysnmp):         *)
(*   - PMRequestManager (snmp/src/pm_request_manager.py): the create /     *)
(*     execute / poll / fetch / delete life cycle of a remote PM request;  *)
(*   - PortTrafficCollector.collect_port_traffic                           *)
(*     (snmp/src/port_traffic_collector.py): the per-batch driver.         *)
(* The remote TNMS and the SNMP transport are the environment: each reply  *)
(* is drawn from a small set.                                              *)
(***************************************************************************)
EXTENDS Integers, Sequences, FiniteSets, TLC

(***************************************************************************)
(* Bounds of the model.                                                    *)
(***************************************************************************)
\* request ids the remote system hands out: 1..MaxId
MaxId == 1
\* execute_pm_request is called with timeout in 0..MaxTimeout (seconds)
MaxTimeout == 2
\* execute_pm_request is called with max_retries in 0..MaxRetries
MaxRetries == 2
\* one get_request_state round trip lasts 0..MaxCallDur seconds
MaxCallDur == 0
\* collect_port_traffic is given 0..MaxPorts ports
MaxPorts == 3
\* pm_collection.batch_size is in 1..MaxBatchSize
MaxBatchSize == 2
\* _process_pm_results returns 0..MaxRecords records for a batch
MaxRecords == 1
\* a table walk delivers 0..MaxWalk rows
MaxWalk == 3
\* one response of the bulk walk carries 1..MaxPage rows
MaxPage == 2

(***************************************************************************)
(* Program constants.                                                      *)
(***************************************************************************)
\* time.sleep(check_interval) between two polls
CheckInterval == 1
\* time.sleep(2 * attempt) before a retry
BackoffFactor == 2

Ids == 1..MaxId
\* the Python None of an Optional[int]
NoId == 0

\* PMRequestState, by name
PMRequestState ==
    {"CREATED", "PENDING", "STARTED", "FINISHED", "FAILED", "CANCELLING", "CANCELLED"}

\* PMRequestState(value): the enum member of a wire value 1..7
StateOfValue(v) ==
    CASE v = 1 -> "CREATED"
      [] v = 2 -> "PENDING"
      [] v = 3 -> "STARTED"
      [] v = 4 -> "FINISHED"
      [] v = 5 -> "FAILED"
      [] v = 6 -> "CANCELLING"
      [] v = 7 -> "CANCELLED"

\* What a GET of the request state can bring back: -1 is a transport error
\* (errorIndication / errorStatus), 0 and 8 are integers outside the enum.
TransportErr == -1
StateReplies == {TransportErr} \cup (0..8)

\* get_request_state: None on a transport error, and None as well when
\* PMRequestState(value) raises ValueError (caught by its except clause).
GetRequestState(reply) ==
    IF reply = TransportErr THEN "None"
    ELSE IF reply \in 1..7 THEN StateOfValue(reply)
    ELSE "None"

\* active_requests[id] of an untracked id
Untracked == [state |-> "-", last_error |-> "-"]
\* the entry create_pm_request records (no 'last_error' key yet)
NewEntry == [state |-> "CREATED", last_error |-> "unset"]

VARIABLES
    active_requests, \* PMRequestManager.active_requests: id -> entry or Untracked
    pc,              \* position of the running execute_pm_request, "idle" when none
    ex,              \* locals of the running execute_pm_request
    ret,             \* return value of the last finished manager call
    lastOp,          \* the last manager call and the replies it got
    hist,            \* history of the running execute_pm_request
    col,             \* locals of the running collect_port_traffic
    opLog,           \* the manager calls collect_port_traffic made on its requests
    gr,              \* a table walk of get_pm_results and what it has built
    pr,              \* a call of _process_pm_results and the counter cache
    dp,              \* discover_ports: the port cache and the remote port table
    wr,              \* the InfluxDBWriter: buffer, lock, threads, storage
    cl,              \* a call of cleanup_old_requests on its own manager
    sc               \* the scheduler thread of TNMSMonitor and its jobs

mgrVars == <<active_requests, pc, ex, ret, lastOp, hist>>

vars == <<active_requests, pc, ex, ret, lastOp, hist, col, opLog, gr, pr, dp, wr, cl, sc>>

Tracked == {i \in Ids : active_requests[i] # Untracked}

\* the states after which the poll loop is left with a failure
TerminalFailure == {"FAILED", "CANCELLED", "CANCELLING"}

NoEx == [request_id |-> NoId, timeout |-> 0, max_retries |-> 0, attempt |-> 0,
         elapsed |-> 0, state |-> "unbound", last_error |-> "None"]

\* id: the Optional[int] of create_pm_request; ok: the bool of execute / delete;
\* raised: an exception left the call
NoRet == [id |-> NoId, ok |-> FALSE, raised |-> FALSE]

NoOp == [op |-> "none", id |-> NoId, next_id |-> NoId, set_ok |-> FALSE]

\* startSets: start SETs sent; slept: seconds slept before the coming start SET;
\* startOk: the start SET of this attempt succeeded; finOk: a poll of an attempt
\* whose start SET succeeded returned FINISHED; terminalSeen: a poll returned a
\* terminal failure; afterTerminal: a start SET or poll was sent after that;
\* invalidValue: the last state read brought an integer outside 1..7;
\* lastEnd: how the last failed attempt ended ("start": its start SET failed,
\* "state": a state read returned None, "failed" / "cancelled": the state read,
\* "timeout": the while condition became false).
NoHist == [startSets |-> 0, slept |-> 0, startOk |-> FALSE, finOk |-> FALSE,
           terminalSeen |-> FALSE, afterTerminal |-> FALSE, invalidValue |-> FALSE,
           lastEnd |-> "none"]

\* no collect_port_traffic is running
NoCol == [pc |-> "off", ports |-> <<>>, batch_size |-> 1, timeout |-> 0,
          max_retries |-> 0, batch_index |-> 0, request_id |-> NoId,
          all_records |-> <<>>, failed_batches |-> 0, attempted |-> 0,
          okBatches |-> <<>>, filters |-> <<>>]

\* no table walk is running
NoWalk == [pc |-> "off", table |-> "none", request_id |-> NoId, rest |-> <<>>,
           delivered |-> <<>>, yields |-> 0, results |-> <<>>]

\* no _process_pm_results call is running
NoProc == [pc |-> "off"]

\* no port discovery is running
NoDisc == [pc |-> "off"]

\* no writer exists
NoWriter == [pc |-> "off"]

\* no cleanup_old_requests call is running
NoCleanup == [pc |-> "off"]

\* no scheduler has been started
NoSched == [pc |-> "off"]

(***************************************************************************)
(* PMRequestManager                                                        *)
(***************************************************************************)

\* get_next_request_id: the id the remote system offers, or None on a
\* transport error.  The remote table holds the rows created and not yet
\* destroyed (SETs are applied exactly when they report no error), which are
\* the tracked ids, and the remote system offers an id that is not in use.
NextIdReplies == {NoId} \cup (Ids \ Tracked)

\* a create_pm_request that records the request before it looks at the SET's
\* outcome
create_pm_request_mut(next_id, set_ok) ==
    /\ lastOp' = [op |-> "create", id |-> NoId, next_id |-> next_id, set_ok |-> set_ok]
    /\ IF next_id = NoId
       THEN /\ ret' = NoRet
            /\ UNCHANGED active_requests
       ELSE /\ active_requests' = [active_requests EXCEPT ![next_id] = NewEntry]
            /\ ret' = IF set_ok THEN [NoRet EXCEPT !.id = next_id, !.ok = TRUE] ELSE NoRet

\* create_pm_request: next_id is what get_next_request_id returned, set_ok
\* whether the create-and-activate SET came back without error.
create_pm_request(next_id, set_ok) ==
    /\ lastOp' = [op |-> "create", id |-> NoId, next_id |-> next_id, set_ok |-> set_ok]
    /\ IF next_id = NoId
       THEN /\ ret' = NoRet
            /\ UNCHANGED active_requests
       ELSE IF ~set_ok
       THEN /\ ret' = NoRet
            /\ UNCHANGED active_requests
       ELSE /\ active_requests' = [active_requests EXCEPT ![next_id] = NewEntry]
            /\ ret' = [NoRet EXCEPT !.id = next_id, !.ok = TRUE]

\* a delete_pm_request that drops the entry whatever the SET reports
delete_pm_request_mut(request_id, set_ok) ==
    /\ lastOp' = [op |-> "delete", id |-> request_id, next_id |-> NoId, set_ok |-> set_ok]
    /\ active_requests' = [active_requests EXCEPT ![request_id] = Untracked]
    /\ ret' = [NoRet EXCEPT !.ok = set_ok]

\* delete_pm_request: set_ok is whether the destroy SET came back without
\* error; on an error the function returns False before it reaches the del.
delete_pm_request(request_id, set_ok) ==
    /\ lastOp' = [op |-> "delete", id |-> request_id, next_id |-> NoId, set_ok |-> set_ok]
    /\ IF ~set_ok
       THEN /\ ret' = NoRet
            /\ UNCHANGED active_requests
       ELSE /\ active_requests' = [active_requests EXCEPT ![request_id] = Untracked]
            /\ ret' = [NoRet EXCEPT !.ok = TRUE]

\* execute_pm_request, entry: the locals before the first attempt.
execute_pm_request(request_id, timeout, max_retries) ==
    /\ pc = "idle"
    /\ pc' = "attempt"
    /\ ex' = [NoEx EXCEPT !.request_id = request_id, !.timeout = timeout,
                          !.max_retries = max_retries]
    /\ hist' = NoHist
    /\ ret' = NoRet
    /\ lastOp' = [op |-> "execute", id |-> request_id, next_id |-> NoId, set_ok |-> FALSE]
    /\ UNCHANGED active_requests

\* the entry of request_id with a state written to it, when it is tracked
StoreState(request_id, state) ==
    IF request_id \in Tracked
    THEN [active_requests EXCEPT ![request_id].state = state]
    ELSE active_requests

\* an exhausted execute that records the request as cancelled
ExhaustedState_mut == "CANCELLED"

\* the state execute_pm_request writes once every attempt has failed
ExhaustedState == "FAILED"

\* the tail of execute_pm_request, after the for loop: every attempt failed.
ExecExhausted ==
    /\ active_requests' =
          IF ex.request_id \in Tracked
          THEN [active_requests EXCEPT ![ex.request_id].state = ExhaustedState,
                                       ![ex.request_id].last_error = ex.last_error]
          ELSE active_requests
    /\ ret' = NoRet
    /\ pc' = "done"
    /\ UNCHANGED <<ex, hist>>

\* a retry delay that does not grow with the attempt
Backoff_mut(attempt) == IF attempt > 0 THEN attempt ELSE 0

\* the sleep before attempt number `attempt` (0-based)
Backoff(attempt) == IF attempt > 0 THEN BackoffFactor * attempt ELSE 0

\* head of `for attempt in range(max_retries)`: sleep before a retry, or
\* leave the loop.
ExecAttempt ==
    /\ pc = "attempt"
    /\ IF ex.attempt < ex.max_retries
       THEN /\ pc' = "start"
            /\ hist' = [hist EXCEPT !.slept = Backoff(ex.attempt), !.startOk = FALSE]
            /\ UNCHANGED <<active_requests, ex, ret>>
       ELSE ExecExhausted
    /\ UNCHANGED <<lastOp, col, opLog, gr, pr, dp, wr, cl, sc>>

\* an attempt that polls whatever its start SET reported
AfterStartSet_mut(set_ok) == "poll"

\* where the attempt goes after its start SET: the poll loop, or `continue`
AfterStartSet(set_ok) == IF set_ok THEN "poll" ELSE "attempt"

\* the start SET (state := 3) of one attempt.
ExecStartSet ==
    /\ pc = "start"
    /\ \E set_ok \in BOOLEAN :
         /\ hist' = [hist EXCEPT !.startSets = @ + 1,
                                 !.startOk = set_ok,
                                 !.afterTerminal = @ \/ hist.terminalSeen,
                                 !.lastEnd = IF set_ok THEN @ ELSE "start"]
         /\ pc' = AfterStartSet(set_ok)
         /\ IF set_ok
            THEN ex' = [ex EXCEPT !.elapsed = 0]
            ELSE ex' = [ex EXCEPT !.last_error = "start", !.attempt = @ + 1]
    /\ UNCHANGED <<active_requests, ret, lastOp, col, opLog, gr, pr, dp, wr, cl, sc>>

\* what the code after the while loop leaves in last_error: reading `state`
\* raises UnboundLocalError when the loop body never ran (caught by the
\* except clause of the attempt); a state outside the terminal failures
\* (None included) is reported as a timeout.
AfterLoopError(state, last_error) ==
    IF state = "unbound" THEN "exception"
    ELSE IF state \notin TerminalFailure THEN "timeout"
    ELSE last_error

\* a terminal failure that ends the whole for loop
AfterTerminalFailure_mut(attempt, max_retries) == max_retries

\* the attempt index after a poll returned a terminal failure: the break
\* leaves the while loop only, and the for loop goes on to the next attempt
AfterTerminalFailure(attempt, max_retries) == attempt + 1

\* a poll loop whose clock stands still
Elapsed_mut(elapsed, dur) == elapsed

\* time.time() - start_time after one more pass of the loop body: the state
\* read took dur seconds and time.sleep(check_interval) followed
Elapsed(elapsed, dur) == elapsed + dur + CheckInterval

\* one pass of `while time.time() - start_time < timeout`, with the code
\* after the loop when the loop is left.
ExecPoll ==
    /\ pc = "poll"
    /\ IF ex.elapsed < ex.timeout
       THEN \E reply \in StateReplies, dur \in 0..MaxCallDur :
            LET state == GetRequestState(reply)
                id == ex.request_id
                seen == [hist EXCEPT !.afterTerminal = @ \/ hist.terminalSeen,
                                     !.invalidValue = reply \notin {TransportErr} \cup (1..7)]
            IN
            CASE state = "None" ->
                   /\ ex' = [ex EXCEPT !.state = state,
                                       !.last_error = AfterLoopError(state, "state"),
                                       !.attempt = @ + 1]
                   /\ hist' = [seen EXCEPT !.lastEnd = "state"]
                   /\ pc' = "attempt"
                   /\ UNCHANGED <<active_requests, ret>>
              [] state = "FINISHED" ->
                   /\ active_requests' = StoreState(id, state)
                   /\ ex' = [ex EXCEPT !.state = state]
                   /\ hist' = [seen EXCEPT !.finOk = hist.startOk]
                   /\ ret' = [NoRet EXCEPT !.ok = TRUE]
                   /\ pc' = "done"
              [] state = "FAILED" ->
                   /\ active_requests' = StoreState(id, state)
                   /\ ex' = [ex EXCEPT !.state = state,
                                       !.last_error = AfterLoopError(state, "failed"),
                                       !.attempt = AfterTerminalFailure(@, ex.max_retries)]
                   /\ hist' = [seen EXCEPT !.terminalSeen = TRUE, !.lastEnd = "failed"]
                   /\ pc' = "attempt"
                   /\ UNCHANGED ret
              [] state \in {"CANCELLED", "CANCELLING"} ->
                   /\ ex' = [ex EXCEPT !.state = state,
                                       !.last_error = AfterLoopError(state, "cancelled"),
                                       !.attempt = AfterTerminalFailure(@, ex.max_retries)]
                   /\ hist' = [seen EXCEPT !.terminalSeen = TRUE, !.lastEnd = "cancelled"]
                   /\ pc' = "attempt"
                   /\ UNCHANGED <<active_requests, ret>>
              [] OTHER ->
                   /\ ex' = [ex EXCEPT !.state = state,
                                       !.elapsed = Elapsed(@, dur)]
                   /\ hist' = seen
                   /\ pc' = "poll"
                   /\ UNCHANGED <<active_requests, ret>>
       ELSE /\ ex' = [ex EXCEPT !.last_error = AfterLoopError(ex.state, ex.last_error),
                                !.attempt = @ + 1]
            /\ hist' = [hist EXCEPT !.lastEnd = "timeout"]
            /\ pc' = "attempt"
            /\ UNCHANGED <<active_requests, ret>>
    /\ UNCHANGED <<lastOp, col, opLog, gr, pr, dp, wr, cl, sc>>

(***************************************************************************)
(* A caller of the manager: any sequence of create / execute / delete.     *)
(***************************************************************************)
MgrCreate ==
    /\ pc = "idle"
    /\ \E next_id \in NextIdReplies, set_ok \in BOOLEAN :
          create_pm_request(next_id, set_ok)
    /\ UNCHANGED <<pc, ex, hist, col, opLog, gr, pr, dp, wr, cl, sc>>

MgrDelete ==
    /\ pc = "idle"
    /\ \E request_id \in Ids, set_ok \in BOOLEAN :
          delete_pm_request(request_id, set_ok)
    /\ UNCHANGED <<pc, ex, hist, col, opLog, gr, pr, dp, wr, cl, sc>>

MgrExecute ==
    /\ \E request_id \in Ids, timeout \in 0..MaxTimeout, max_retries \in 0..MaxRetries :
          execute_pm_request(request_id, timeout, max_retries)
    /\ UNCHANGED <<col, opLog, gr, pr, dp, wr, cl, sc>>

\* the caller has the bool of execute_pm_request; its locals are gone
MgrExecuteReturn ==
    /\ pc = "done"
    /\ pc' = "idle"
    /\ ex' = NoEx
    /\ hist' = NoHist
    /\ UNCHANGED <<active_requests, ret, lastOp, col, opLog, gr, pr, dp, wr, cl, sc>>

MgrInit ==
    /\ active_requests = [i \in Ids |-> Untracked]
    /\ pc = "idle"
    /\ ex = NoEx
    /\ ret = NoRet
    /\ lastOp = NoOp
    /\ hist = NoHist

Init ==
    /\ MgrInit
    /\ col = NoCol
    /\ opLog = <<>>
    /\ gr = NoWalk
    /\ pr = NoProc
    /\ dp = NoDisc
    /\ wr = NoWriter
    /\ cl = NoCleanup
    /\ sc = NoSched

Next ==
    \/ MgrCreate
    \/ MgrDelete
    \/ MgrExecute
    \/ ExecAttempt
    \/ ExecStartSet
    \/ ExecPoll
    \/ MgrExecuteReturn

Spec == Init /\ [][Next]_vars

(***************************************************************************)
(* Claims about PMRequestManager, checked under Spec.                      *)
(***************************************************************************)

\* a step of the poll loop that sends a state GET
PollSent == pc = "poll" /\ ex.elapsed < ex.timeout

\* C1: when get_next_request_id returns None or the create SET reports an
\* error, create returns no id and the tracked map is unchanged; otherwise it
\* returns the id and the map gains exactly that id, with state CREATED.
C1_CreateAllOrNothing ==
    [][lastOp'.op = "create" =>
         IF lastOp'.next_id = NoId \/ ~lastOp'.set_ok
         THEN /\ ret'.id = NoId
              /\ active_requests' = active_requests
         ELSE /\ ret'.id = lastOp'.next_id
              /\ ret'.id \notin Tracked
              /\ Tracked' = Tracked \cup {ret'.id}
              /\ active_requests'[ret'.id].state = "CREATED"
              /\ \A i \in Ids \ {ret'.id} : active_requests'[i] = active_requests[i]
      ]_vars

\* C1 witness: a create whose SET failed has returned no id.
C1_Witness ==
    /\ lastOp.op = "create"
    /\ lastOp.next_id \in Ids
    /\ ~lastOp.set_ok
    /\ ret.id = NoId

C3_TrueOnlyOnFinished ==
    /\ ~ret.raised
    /\ pc = "done" => (ret.ok <=> hist.finOk)
    /\ pc = "done" /\ (ex.max_retries = 0 \/ ex.timeout = 0) => ~ret.ok

\* C3 witness: execute has returned true after an earlier failed attempt.
C3_Witness ==
    /\ pc = "done"
    /\ ret.ok
    /\ ex.attempt >= 1

\* C4 as claimed: once a poll has returned FAILED, CANCELLED or CANCELLING no
\* further start SET or state poll is sent, and execute returns false.
C4_TerminalFailureEndsExecute ==
    hist.terminalSeen => /\ ~hist.afterTerminal
                         /\ pc = "done" => ~ret.ok

\* C4 amended: a poll that returns FAILED, CANCELLED or CANCELLING ends the
\* current attempt only (no further poll in it, no return yet); the next
\* attempt follows while attempts remain, and execute returns false only
\* once all max_retries attempts are used up.
C4_TerminalFailureEndsAttempt ==
    /\ [][PollSent /\ ex'.state \in TerminalFailure =>
            /\ pc' = "attempt"
            /\ ex'.attempt = ex.attempt + 1
            /\ ret' = ret
         ]_vars
    /\ [](pc = "done" /\ ~ret.ok => ex.attempt = ex.max_retries)
    /\ [](pc = "attempt" /\ ex.attempt < ex.max_retries => ENABLED ExecAttempt)

\* C4 witness: a start SET was sent after a poll had returned a terminal
\* failure.
C4_Witness ==
    /\ hist.terminalSeen
    /\ hist.afterTerminal

\* C5: a transport error on the start SET or on a poll ends the attempt and
\* the next one begins; at most max_retries start SETs are sent; attempt i
\* is preceded by a sleep of 2 * i seconds; after the last failed attempt
\* execute returns false.
C5_RetryWithBackoff ==
    /\ [](hist.startSets <= ex.max_retries)
    /\ [](pc = "start" => hist.slept = 2 * ex.attempt /\ hist.startSets = ex.attempt)
    /\ [](pc = "done" /\ ex.attempt = ex.max_retries => ~ret.ok)
    /\ [][pc = "start" /\ pc' # "start" /\ ~hist'.startOk =>
            pc' = "attempt" /\ ex'.attempt = ex.attempt + 1]_vars
    /\ [][PollSent /\ ex'.state = "None" /\ pc' # "poll" =>
            pc' = "attempt" /\ ex'.attempt = ex.attempt + 1]_vars

\* C5 witness: a retry is about to send its start SET after its sleep.
C5_Witness ==
    /\ pc = "start"
    /\ ex.attempt >= 1
    /\ hist.slept >= 2

InvalidValuePoll ==
    /\ pc = "poll"
    /\ ex.elapsed < ex.timeout
    /\ hist' # hist
    /\ hist'.invalidValue

\* C31: when execute returns false after at least one attempt on a tracked
\* request, the record's last_error names how the last failed attempt ended
\* (start SET error, unreadable state, FAILED or cancelled state, timeout);
\* when execute returns true no last_error is written; execute on an
\* untracked id writes nothing to the map.
C31_LastErrorDescribesLastAttempt ==
    /\ [](pc = "done" /\ ~ret.ok /\ ex.attempt >= 1 /\ ex.request_id \in Tracked
            => active_requests[ex.request_id].last_error = hist.lastEnd)
    /\ [][pc # "done" /\ pc' = "done" /\ ret'.ok =>
            \A i \in Ids : active_requests'[i].last_error = active_requests[i].last_error
         ]_vars
    /\ [][pc \notin {"idle", "done"} /\ ex.request_id \notin Tracked =>
            active_requests' = active_requests
         ]_vars

\* execute_pm_request runs on its caller's thread and every step of it is a
\* call that returns (an SNMP request with the transport's timeout, or a
\* sleep), so a started execute keeps taking steps.
\* The manager when execute is called: each id untracked or as
\* create_pm_request recorded it.
ExecuteInit ==
    /\ active_requests \in [Ids -> {Untracked, NewEntry}]
    /\ pc = "idle"
    /\ ex = NoEx
    /\ ret = NoRet
    /\ lastOp = NoOp
    /\ hist = NoHist
    /\ col = NoCol
    /\ opLog = <<>>
    /\ gr = NoWalk
    /\ pr = NoProc
    /\ dp = NoDisc
    /\ wr = NoWriter
    /\ cl = NoCleanup
    /\ sc = NoSched

\* one call of execute_pm_request, up to its return
ExecuteNext ==
    \/ MgrExecute
    \/ ExecAttempt
    \/ ExecStartSet
    \/ ExecPoll

SpecExecute ==
    /\ ExecuteInit
    /\ [][ExecuteNext]_vars
    /\ WF_vars(ExecAttempt) /\ WF_vars(ExecStartSet) /\ WF_vars(ExecPoll)

\* C32: execute always terminates, whatever the remote system answers and for
\* every timeout >= 0 and max_retries >= 0: it returns after at most
\* max_retries attempts; an attempt's poll loop is left only at FINISHED, at a
\* terminal failure state, at a read error or at the hard timeout, so a state
\* that does not change keeps being polled until the hard timeout.
C32_ExecuteTerminates ==
    /\ (pc \notin {"idle", "done"}) ~> (pc = "done")
    /\ [](hist.startSets <= ex.max_retries /\ ex.attempt <= ex.max_retries)
    /\ [][pc = "poll" /\ pc' # "poll" =>
            \/ ~(ex.elapsed < ex.timeout)
            \/ ex'.state \in {"FINISHED", "None"} \cup TerminalFailure
         ]_vars
    /\ [][PollSent /\ ex'.state = ex.state /\ ex.state \in {"CREATED", "PENDING", "STARTED"}
            => pc' = "poll" /\ ex'.attempt = ex.attempt /\ ret' = ret
         ]_vars

\* C32 witness: execute has returned after its last attempt polled a state
\* that never changed until the hard timeout.
C32_Witness ==
    /\ pc = "done"
    /\ ~ret.ok
    /\ ex.attempt = ex.max_retries
    /\ ex.max_retries = MaxRetries
    /\ ex.state = "STARTED"
    /\ hist.lastEnd = "timeout"
    /\ ex.elapsed >= ex.timeout
    /\ ex.timeout = MaxTimeout

\* C28: a state read that brings an integer outside 1..7 does not end the
\* attempt: the poll loop of the same attempt goes on with its next pass.
C28_InvalidStateKeepsPolling ==
    [][InvalidValuePoll => pc' = "poll" /\ ex'.attempt = ex.attempt]_vars

(***************************************************************************)
(* PortTrafficCollector.collect_port_traffic                               *)
(*                                                                         *)
(* col.attempted counts the batches begun and col.okBatches lists, for     *)
(* every batch whose results were processed without an exception, its      *)
(* number and how many records the processing returned; opLog lists the    *)
(* manager calls made on the requests the cycle created.                   *)
(***************************************************************************)

\* total_batches = (len(port_items) + batch_size - 1) // batch_size
TotalBatches(n, batch_size) == (n + batch_size - 1) \div batch_size

\* batch_num = batch_index // batch_size + 1
BatchNum(batch_index, batch_size) == batch_index \div batch_size + 1

\* the records _process_pm_results returned for a batch, n of them
RecordsOf(batch_num, n) == [k \in 1..n |-> <<batch_num, k>>]

\* a failed batch that ends the for loop
AfterFailedBatch_mut(batch_index, batch_size, n) == n

\* the next batch_index after a failed batch: `continue` goes on with the
\* next value of range(0, len(port_items), batch_size)
AfterFailedBatch(batch_index, batch_size, n) == batch_index + batch_size

\* a slice that starts one item early
BatchPorts_mut(port_items, batch_index, batch_size) ==
    LET from == IF batch_index = 0 THEN 1 ELSE batch_index
        to == IF batch_index + batch_size <= Len(port_items)
              THEN batch_index + batch_size ELSE Len(port_items)
    IN SubSeq(port_items, from, to)

\* batch_ports = port_items[batch_index:batch_index + batch_size], whose keys
\* joined by ',' are the request's filter_value
BatchPorts(port_items, batch_index, batch_size) ==
    LET to == IF batch_index + batch_size <= Len(port_items)
              THEN batch_index + batch_size ELSE Len(port_items)
    IN SubSeq(port_items, batch_index + 1, to)

\* create_pm_request for the batch at batch_index; None fails the batch.
ColCreate ==
    /\ col.pc = "loop"
    /\ col.batch_index < Len(col.ports)
    /\ pc = "idle"
    /\ \E next_id \in NextIdReplies, set_ok \in BOOLEAN :
          create_pm_request(next_id, set_ok)
    /\ IF ret'.id = NoId
       THEN /\ col' = [col EXCEPT !.attempted = @ + 1,
                                  !.filters = Append(@, BatchPorts(col.ports,
                                                 col.batch_index, col.batch_size)),
                                  !.failed_batches = @ + 1,
                                  !.batch_index = AfterFailedBatch(@, col.batch_size,
                                                                   Len(col.ports))]
            /\ UNCHANGED opLog
       ELSE /\ col' = [col EXCEPT !.attempted = @ + 1,
                                  !.filters = Append(@, BatchPorts(col.ports,
                                                 col.batch_index, col.batch_size)),
                                  !.request_id = ret'.id,
                                  !.pc = "created"]
            /\ opLog' = Append(opLog, [op |-> "create", id |-> ret'.id, ok |-> TRUE])
    /\ UNCHANGED <<pc, ex, hist, gr, pr, dp, wr, cl, sc>>

\* execute_pm_request(request_id, timeout=timeout, max_retries=max_retries)
ColExecute ==
    /\ col.pc = "created"
    /\ execute_pm_request(col.request_id, col.timeout, col.max_retries)
    /\ col' = [col EXCEPT !.pc = "executing"]
    /\ UNCHANGED <<opLog, gr, pr, dp, wr, cl, sc>>

\* execute_pm_request has returned: fetch the results, or clean up
ColExecuted ==
    /\ col.pc = "executing"
    /\ pc = "done"
    /\ pc' = "idle"
    /\ ex' = NoEx
    /\ hist' = NoHist
    /\ opLog' = Append(opLog, [op |-> "execute", id |-> col.request_id, ok |-> ret.ok])
    /\ col' = [col EXCEPT !.pc = IF ret.ok THEN "fetch" ELSE "cleanup_failed"]
    /\ UNCHANGED <<active_requests, ret, lastOp, gr, pr, dp, wr, cl, sc>>

\* a failed execute that is not followed by a delete
ColDeleteFailed_mut ==
    /\ col.pc = "cleanup_failed"
    /\ pc = "idle"
    /\ col' = [col EXCEPT !.failed_batches = @ + 1,
                          !.batch_index = AfterFailedBatch(@, col.batch_size,
                                                           Len(col.ports)),
                          !.pc = "loop"]
    /\ UNCHANGED <<active_requests, pc, ex, ret, lastOp, hist, opLog, gr, pr, dp, wr, cl, sc>>

\* execute returned False: delete the request, count the batch as failed
ColDeleteFailed ==
    /\ col.pc = "cleanup_failed"
    /\ pc = "idle"
    /\ \E set_ok \in BOOLEAN :
         /\ delete_pm_request(col.request_id, set_ok)
         /\ opLog' = Append(opLog, [op |-> "delete", id |-> col.request_id, ok |-> set_ok])
    /\ col' = [col EXCEPT !.failed_batches = @ + 1,
                          !.batch_index = AfterFailedBatch(@, col.batch_size,
                                                           Len(col.ports)),
                          !.pc = "loop"]
    /\ UNCHANGED <<pc, ex, hist, gr, pr, dp, wr, cl, sc>>

\* get_pm_results and _process_pm_results: no results at all, n records, or
\* an exception (caught, the batch counts as failed)
ColFetch ==
    /\ col.pc = "fetch"
    /\ pc = "idle"
    /\ \E outcome \in {"empty", "records", "raise"}, n \in 0..MaxRecords :
         LET batch_num == BatchNum(col.batch_index, col.batch_size) IN
         CASE outcome = "empty" ->
                /\ n = 0
                /\ col' = [col EXCEPT !.okBatches = Append(@, <<batch_num, 0>>),
                                      !.pc = "cleanup"]
           [] outcome = "records" ->
                col' = [col EXCEPT !.all_records = @ \o RecordsOf(batch_num, n),
                                   !.okBatches = Append(@, <<batch_num, n>>),
                                   !.pc = "cleanup"]
           [] outcome = "raise" ->
                /\ n = 0
                /\ col' = [col EXCEPT !.failed_batches = @ + 1, !.pc = "cleanup"]
    /\ opLog' = Append(opLog, [op |-> "fetch", id |-> col.request_id, ok |-> TRUE])
    /\ UNCHANGED <<active_requests, pc, ex, ret, lastOp, hist, gr, pr, dp, wr, cl, sc>>

\* delete the request of a batch whose execute succeeded; next batch
ColDelete ==
    /\ col.pc = "cleanup"
    /\ pc = "idle"
    /\ \E set_ok \in BOOLEAN :
         /\ delete_pm_request(col.request_id, set_ok)
         /\ opLog' = Append(opLog, [op |-> "delete", id |-> col.request_id, ok |-> set_ok])
    /\ col' = [col EXCEPT !.batch_index = @ + col.batch_size, !.pc = "loop"]
    /\ UNCHANGED <<pc, ex, hist, gr, pr, dp, wr, cl, sc>>

\* range(0, len(port_items), batch_size) is exhausted: return all_records
ColReturn ==
    /\ col.pc = "loop"
    /\ col.batch_index >= Len(col.ports)
    /\ col' = [col EXCEPT !.pc = "returned"]
    /\ UNCHANGED <<active_requests, pc, ex, ret, lastOp, hist, opLog, gr, pr, dp, wr, cl, sc>>

\* the pm_collection settings 'timeout' and 'max_retries' the cycle hands to
\* execute_pm_request: one poll per attempt, one or two attempts
ColTimeouts == {CheckInterval}
ColRetries == {1, 2}

\* collect_port_traffic(ports) on a fresh collector: ports in discovery
\* order, the pm_collection settings of the configuration
ColInit ==
    /\ MgrInit
    /\ \E n \in 0..MaxPorts, batch_size \in 1..MaxBatchSize,
          timeout \in ColTimeouts, max_retries \in ColRetries :
          col = [NoCol EXCEPT !.pc = "loop",
                              !.ports = [i \in 1..n |-> i],
                              !.batch_size = batch_size,
                              !.timeout = timeout,
                              !.max_retries = max_retries]
    /\ opLog = <<>>
    /\ gr = NoWalk
    /\ pr = NoProc
    /\ dp = NoDisc
    /\ wr = NoWriter
    /\ cl = NoCleanup
    /\ sc = NoSched

ColNext ==
    \/ ColCreate
    \/ ColExecute
    \/ ExecAttempt
    \/ ExecStartSet
    \/ ExecPoll
    \/ ColExecuted
    \/ ColDeleteFailed
    \/ ColFetch
    \/ ColDelete
    \/ ColReturn

SpecCollect == ColInit /\ [][ColNext]_vars

(***************************************************************************)
(* Claims about collect_port_traffic, checked under SpecCollect.           *)
(***************************************************************************)

RECURSIVE ConcatOk(_)
\* the records of the batches in okBatches, in that order
ConcatOk(batches) ==
    IF batches = <<>> THEN <<>>
    ELSE RecordsOf(Head(batches)[1], Head(batches)[2]) \o ConcatOk(Tail(batches))

\* C9: a failed batch does not end the cycle: when collect_port_traffic
\* returns, every one of the ceil(N/B) batches has been attempted and the
\* returned list is the records of all batches processed without failure.
C9_BatchIsolation ==
    col.pc = "returned" =>
        /\ col.attempted = TotalBatches(Len(col.ports), col.batch_size)
        /\ col.all_records = ConcatOk(col.okBatches)
        /\ col.failed_batches + Len(col.okBatches) = col.attempted

\* C9 witness: the cycle has returned records of a later batch after its
\* first batch failed.
C9_Witness ==
    /\ col.pc = "returned"
    /\ col.failed_batches >= 1
    /\ col.okBatches # <<>>
    /\ Head(col.okBatches)[1] >= 2
    /\ Len(col.all_records) >= 1

\* C10: on every request the cycle created the calls are create, execute,
\* fetch (only after execute returned true), delete, in that order; delete
\* is attempted exactly once, also after a failed execute or a failed
\* processing, and before the next create, so at most one created request
\* awaits its delete.
C10_CallOrder ==
    /\ \A i \in 1..Len(opLog) :
         LET e == opLog[i] IN
         CASE e.op = "create"  -> i = 1 \/ opLog[i-1].op = "delete"
           [] e.op = "execute" -> /\ i > 1
                                  /\ opLog[i-1].op = "create"
                                  /\ opLog[i-1].id = e.id
           [] e.op = "fetch"   -> /\ i > 1
                                  /\ opLog[i-1].op = "execute"
                                  /\ opLog[i-1].id = e.id
                                  /\ opLog[i-1].ok
           [] e.op = "delete"  -> /\ i > 1
                                  /\ opLog[i-1].id = e.id
                                  /\ \/ opLog[i-1].op = "fetch"
                                     \/ opLog[i-1].op = "execute" /\ ~opLog[i-1].ok
    /\ col.pc \in {"loop", "returned"} =>
          opLog = <<>> \/ opLog[Len(opLog)].op = "delete"
    /\ Cardinality({i \in 1..Len(opLog) : opLog[i].op = "create"})
         - Cardinality({i \in 1..Len(opLog) : opLog[i].op = "delete"}) \in {0, 1}

\* C10 witness: a request whose execute failed was deleted and the next
\* batch's request was created after that.
C10_Witness ==
    \E i \in 1..Len(opLog) :
        /\ opLog[i].op = "execute"
        /\ ~opLog[i].ok
        /\ i + 2 <= Len(opLog)
        /\ opLog[i+1].op = "delete"
        /\ opLog[i+2].op = "create"

RECURSIVE Flatten(_)
\* the filter values of the cycle one after the other
Flatten(seqs) == IF seqs = <<>> THEN <<>> ELSE Head(seqs) \o Flatten(Tail(seqs))

\* C11: the cycle makes exactly ceil(N/B) requests; every filter value
\* lists between 1 and B ports, the k-th one the k-th slice of the ports in
\* discovery order, so that all filter values one after the other are the
\* port list: every port is in exactly one batch.
C11_BatchPartition ==
    /\ \A k \in 1..Len(col.filters) :
         /\ Len(col.filters[k]) \in 1..col.batch_size
         /\ \A i \in 1..Len(col.filters[k]) :
              col.filters[k][i] = col.ports[(k - 1) * col.batch_size + i]
         /\ k < Len(col.filters) => Len(col.filters[k]) = col.batch_size
    /\ col.pc = "returned" =>
         /\ Len(col.filters) = TotalBatches(Len(col.ports), col.batch_size)
         /\ Flatten(col.filters) = col.ports
         /\ \A p \in 1..Len(col.ports) :
              Cardinality({<<k, i>> \in (1..Len(col.filters)) \X (1..col.batch_size) :
                             i <= Len(col.filters[k]) /\ col.filters[k][i] = col.ports[p]}) = 1

\* C11 witness: a cycle over a port count that is no multiple of the batch
\* size has returned after a full batch and a last, shorter batch.
C11_Witness ==
    /\ col.pc = "returned"
    /\ Len(col.filters) >= 2
    /\ Len(col.filters[Len(col.filters)]) < col.batch_size
    /\ Len(col.filters[1]) = col.batch_size

\* the ids of the requests the cycle created
CreatedInCycle == {opLog[k].id : k \in {j \in 1..Len(opLog) : opLog[j].op = "create"}}

\* the ids whose delete_pm_request returned False in the cycle
DeleteFailedInCycle ==
    {opLog[k].id : k \in {j \in 1..Len(opLog) : opLog[j].op = "delete" /\ ~opLog[j].ok}}

Requests == {5, 9}
PmpNumbers == {1, 2}
ValueNumbers == {1, 2}
\* columns of the point table: PMP_FIELD_NE_ID, PMP_FIELD_PORT_ID, and 1, a
\* column the elif chain does not name
PmpFieldIds == {3, 4, 1}
\* columns of the value table: VALUE_FIELD_PARAM_NAME, VALUE_FIELD_PARAM_VALUE
ValueFieldIds == {4, 5}

\* max_rows of _get_pmp_results and of _get_value_results
PmpMaxRows == 1000
ValueMaxRows == 5000

MaxRowsOf(table) == IF table = "pmp" THEN PmpMaxRows ELSE ValueMaxRows

PmpOids == [field : PmpFieldIds, req : Requests, pmp : PmpNumbers, num : {0}]
ValueOids == [field : ValueFieldIds, req : Requests, pmp : PmpNumbers, num : ValueNumbers]
OidsOf(table) == IF table = "pmp" THEN PmpOids ELSE ValueOids

\* a key of a record that was never set
Absent == [field |-> 0, req |-> 0, pmp |-> 0, num |-> 0]

\* the record key a column is stored under
FieldName(table, field_id) ==
    IF table = "pmp"
    THEN CASE field_id = 3 -> "ne_id"
           [] field_id = 4 -> "port_id"
           [] OTHER -> "field_1"
    ELSE CASE field_id = 4 -> "param_name"
           [] field_id = 5 -> "param_value"
           [] OTHER -> "field_1"

FieldNames(table) ==
    IF table = "pmp" THEN {"ne_id", "port_id", "field_1"}
    ELSE {"param_name", "param_value", "field_1"}

\* the record a row opens: request_id, pmp_number (and value_number)
NewRecord(table, row) ==
    [request_id |-> row.req, pmp_number |-> row.pmp, value_number |-> row.num,
     fields |-> [n \in FieldNames(table) |-> Absent]]

\* a row whose request id is not looked at
WantedRow_mut(row, request_id) == TRUE

\* `if req_id == request_id`
WantedRow(row, request_id) == row.req = request_id

\* a lookup that never finds the record
FindRecord_mut(table, results, row) == 0

\* `for record in results: if record['pmp_number'] == pmp_number [and
\* record['value_number'] == value_number]: break`: the index of the first
\* record of the row's key, 0 when there is none
FindRecord(table, results, row) ==
    LET hits == {i \in 1..Len(results) :
                   /\ results[i].pmp_number = row.pmp
                   /\ table = "value" => results[i].value_number = row.num}
    IN IF hits = {} THEN 0 ELSE CHOOSE i \in hits : \A j \in hits : i <= j

\* the body of `for varBind in varBinds` for one row
ProcessRow(table, results, row, request_id) ==
    IF WantedRow(row, request_id)
    THEN LET found == FindRecord(table, results, row)
             base == IF found = 0 THEN Append(results, NewRecord(table, row)) ELSE results
             at == IF found = 0 THEN Len(results) + 1 ELSE found
         IN [base EXCEPT ![at].fields[FieldName(table, row.field)] = row]
    ELSE results

RECURSIVE ProcessRows(_, _, _, _)
\* the rows of one response, in order
ProcessRows(table, results, rows, request_id) ==
    IF rows = <<>> THEN results
    ELSE ProcessRows(table, ProcessRow(table, results, Head(rows), request_id),
                     Tail(rows), request_id)

Min(a, b) == IF a <= b THEN a ELSE b

\* one response of the bulk walk: its rows are processed, then the row
\* ceiling is checked
GetResultsPage ==
    /\ gr.pc = "walking"
    /\ gr.rest # <<>>
    /\ \E k \in 1..Min(MaxPage, Len(gr.rest)) :
         LET page == SubSeq(gr.rest, 1, k)
             results == ProcessRows(gr.table, gr.results, page, gr.request_id)
         IN gr' = [gr EXCEPT !.results = results,
                             !.delivered = @ \o page,
                             !.rest = SubSeq(@, k + 1, Len(@)),
                             !.yields = @ + 1,
                             !.pc = IF Len(results) > MaxRowsOf(gr.table)
                                    THEN "returned" ELSE "walking"]
    /\ UNCHANGED <<active_requests, pc, ex, ret, lastOp, hist, col, opLog, pr, dp, wr, cl, sc>>

\* the walk has left the table: the for loop ends, results is returned
GetResultsEnd ==
    /\ gr.pc = "walking"
    /\ gr.rest = <<>>
    /\ gr' = [gr EXCEPT !.pc = "returned"]
    /\ UNCHANGED <<active_requests, pc, ex, ret, lastOp, hist, col, opLog, pr, dp, wr, cl, sc>>

\* a response with errorIndication or errorStatus (or an exception): the
\* walk is broken off and what was built so far is returned
GetResultsError ==
    /\ gr.pc = "walking"
    /\ gr.rest # <<>>
    /\ gr' = [gr EXCEPT !.pc = "returned", !.rest = <<>>]
    /\ UNCHANGED <<active_requests, pc, ex, ret, lastOp, hist, col, opLog, pr, dp, wr, cl, sc>>

\* the walks of a table: any rows of the table, each OID once, in any order
WalksOf(table) ==
    {w \in UNION {[1..n -> OidsOf(table)] : n \in 0..MaxWalk} :
        \A i, j \in DOMAIN w : i # j => w[i] # w[j]}

\* _get_pmp_results(request_id) or _get_value_results(request_id) at its
\* first response
WalkInit ==
    /\ MgrInit
    /\ col = NoCol
    /\ opLog = <<>>
    /\ pr = NoProc
    /\ dp = NoDisc
    /\ wr = NoWriter
    /\ cl = NoCleanup
    /\ sc = NoSched
    /\ \E table \in {"pmp", "value"}, request_id \in Requests :
         \E w \in WalksOf(table) :
            gr = [NoWalk EXCEPT !.pc = "walking", !.table = table,
                                !.request_id = request_id, !.rest = w]

WalkNext ==
    \/ GetResultsPage
    \/ GetResultsEnd
    \/ GetResultsError

SpecWalk == WalkInit /\ [][WalkNext]_vars

(***************************************************************************)
(* Claims about get_pm_results, checked under SpecWalk.                    *)
(***************************************************************************)

\* the key of a row: pmp number and value number
RowKey(row) == <<row.pmp, row.num>>
RecordKey(rec) == <<rec.pmp_number, rec.value_number>>

\* the delivered rows of the request the results are fetched for
OwnRows == {i \in 1..Len(gr.delivered) : gr.delivered[i].req = gr.request_id}

\* C7: the records built hold the request id asked for and nothing of
\* another request's rows, and every delivered row of that request id is
\* found in the record of its key.
C7_OnlyOwnRows ==
    /\ \A i \in 1..Len(gr.results) :
         /\ gr.results[i].request_id = gr.request_id
         /\ \A n \in FieldNames(gr.table) :
              gr.results[i].fields[n] # Absent =>
                 gr.results[i].fields[n].req = gr.request_id
    /\ \A j \in OwnRows :
         \E i \in 1..Len(gr.results) :
            /\ RecordKey(gr.results[i]) = RowKey(gr.delivered[j])
            /\ gr.results[i].fields[FieldName(gr.table, gr.delivered[j].field)]
                  = gr.delivered[j]

\* C7 witness: a walk that delivered a row of another request between two
\* rows of the request asked for has returned.
C7_Witness ==
    /\ gr.pc = "returned"
    /\ gr.results # <<>>
    /\ \E j, k, l \in 1..Len(gr.delivered) :
         /\ j < k /\ k < l
         /\ j \in OwnRows /\ l \in OwnRows /\ k \notin OwnRows

\* C8: whatever the order of the rows and their split into responses, there
\* is exactly one record per key among the delivered rows of the request,
\* no key has two records, and a record holds exactly the fields that were
\* delivered for its key.
C8_OneRecordPerKey ==
    /\ \A i, j \in 1..Len(gr.results) :
         i # j => RecordKey(gr.results[i]) # RecordKey(gr.results[j])
    /\ Len(gr.results) = Cardinality({RowKey(gr.delivered[j]) : j \in OwnRows})
    /\ \A i \in 1..Len(gr.results) : \A n \in FieldNames(gr.table) :
         LET rows == {j \in OwnRows :
                        /\ RowKey(gr.delivered[j]) = RecordKey(gr.results[i])
                        /\ FieldName(gr.table, gr.delivered[j].field) = n}
         IN IF rows = {} THEN gr.results[i].fields[n] = Absent
            ELSE \E j \in rows : gr.results[i].fields[n] = gr.delivered[j]

\* C8 witness: a walk has returned in which two fields of one key came in
\* different responses with a row of another key of the request between
\* them.
C8_Witness ==
    /\ gr.pc = "returned"
    /\ gr.yields >= 2
    /\ \E j, k, l \in OwnRows :
         /\ j < k /\ k < l
         /\ RowKey(gr.delivered[j]) = RowKey(gr.delivered[l])
         /\ RowKey(gr.delivered[k]) # RowKey(gr.delivered[j])

(***************************************************************************)
(* PMRequestManager: the read calls beside create, execute and delete      *)
(*                                                                         *)
(* A read call is one step of its caller; lastOp holds the call with the   *)
(* replies it got and ret.value what it returned.                          *)
(***************************************************************************)
\* the rows the point table and the value table deliver to a walk, in order
PmpWalk ==
    <<[field |-> 3, req |-> 5, pmp |-> 1, num |-> 0],
      [field |-> 3, req |-> 9, pmp |-> 1, num |-> 0],
      [field |-> 4, req |-> 5, pmp |-> 2, num |-> 0]>>
ValueWalk == <<[field |-> 5, req |-> 5, pmp |-> 1, num |-> 1]>>

\* a get_next_request_id that hands on what the GET brought
get_next_request_id_mut(reply) == reply

\* get_next_request_id: int(varBind[1]), None on errorIndication,
\* errorStatus or an exception
get_next_request_id(reply) == IF reply = TransportErr THEN NoId ELSE reply

\* get_request_info: str(varBind[1]), "" on an error or an exception
get_request_info(reply) == IF reply = TransportErr THEN "" ELSE "info"

\* _get_pmp_results / _get_value_results: the records built from the rows
\* that came before the walk ended or was broken off by an error
get_results(table, walk, cut, request_id) ==
    ProcessRows(table, <<>>, SubSeq(walk, 1, cut), request_id)

\* get_pm_results(request_id): both walks, each broken off after pmp_cut /
\* value_cut rows when it meets an error
get_pm_results(request_id, pmp_cut, value_cut) ==
    <<get_results("pmp", PmpWalk, pmp_cut, request_id),
      get_results("value", ValueWalk, value_cut, request_id)>>

\* what a read call returned, under the name of the call
NoValue ==
    [get_request_state |-> "-", get_request_info |-> "-",
     get_next_request_id |-> NoId, get_pm_results |-> <<<<>>, <<>>>>]
Returned(op, value) ==
    [id |-> NoId, ok |-> FALSE, raised |-> FALSE, value |-> [NoValue EXCEPT ![op] = value]]

\* the call and its replies: error, whether a reply brought errorIndication
\* or errorStatus; reply, the integer of a GET; cuts, the rows each walk
\* of get_pm_results delivered
Called(op, request_id, error, reply, cuts) ==
    [op |-> op, id |-> request_id, next_id |-> NoId, set_ok |-> FALSE,
     error |-> error, reply |-> reply, cuts |-> cuts]

MgrGetRequestState ==
    /\ pc = "idle"
    /\ \E request_id \in Ids, reply \in StateReplies :
         /\ lastOp' = Called("get_request_state", request_id, reply = TransportErr,
                             reply, <<0, 0>>)
         /\ ret' = Returned("get_request_state", GetRequestState(reply))
    /\ UNCHANGED <<active_requests, pc, ex, hist, col, opLog, gr, pr, dp, wr, cl, sc>>

MgrGetRequestInfo ==
    /\ pc = "idle"
    /\ \E request_id \in Ids, reply \in {TransportErr, 1} :
         /\ lastOp' = Called("get_request_info", request_id, reply = TransportErr,
                             reply, <<0, 0>>)
         /\ ret' = Returned("get_request_info", get_request_info(reply))
    /\ UNCHANGED <<active_requests, pc, ex, hist, col, opLog, gr, pr, dp, wr, cl, sc>>

MgrGetNextRequestId ==
    /\ pc = "idle"
    /\ \E reply \in {TransportErr} \cup (Ids \ Tracked) :
         /\ lastOp' = Called("get_next_request_id", NoId, reply = TransportErr,
                             reply, <<0, 0>>)
         /\ ret' = Returned("get_next_request_id", get_next_request_id(reply))
    /\ UNCHANGED <<active_requests, pc, ex, hist, col, opLog, gr, pr, dp, wr, cl, sc>>

\* each walk runs to its end or meets an error after some of its rows
MgrGetPmResults ==
    /\ pc = "idle"
    /\ \E request_id \in Requests, pmp_error \in BOOLEAN, value_error \in BOOLEAN,
          pmp_cut \in 0..Len(PmpWalk), value_cut \in 0..Len(ValueWalk) :
         /\ ~pmp_error => pmp_cut = Len(PmpWalk)
         /\ ~value_error => value_cut = Len(ValueWalk)
         /\ lastOp' = Called("get_pm_results", request_id, pmp_error \/ value_error,
                             0, <<pmp_cut, value_cut>>)
         /\ ret' = Returned("get_pm_results",
                            get_pm_results(request_id, pmp_cut, value_cut))
    /\ UNCHANGED <<active_requests, pc, ex, hist, col, opLog, gr, pr, dp, wr, cl, sc>>

\* a caller of the manager that also reads
GettersNext ==
    \/ MgrCreate
    \/ MgrDelete
    \/ MgrExecute
    \/ ExecAttempt
    \/ ExecStartSet
    \/ ExecPoll
    \/ MgrExecuteReturn
    \/ MgrGetRequestState
    \/ MgrGetRequestInfo
    \/ MgrGetNextRequestId
    \/ MgrGetPmResults

SpecGetters == Init /\ [][GettersNext]_vars

(***************************************************************************)
(* Claims about the read calls, checked under SpecGetters.                 *)
(***************************************************************************)

ReadCalls ==
    {"get_request_state", "get_request_info", "get_next_request_id", "get_pm_results"}

\* a step that is a read call
ReadStep == lastOp'.op \in ReadCalls /\ <<lastOp', ret'>> # <<lastOp, ret>>

\* the tracked map gains an id only in a create that returns it and loses
\* an id only in a delete of it
MapFrame ==
    /\ \A i \in Tracked' \ Tracked : lastOp'.op = "create" /\ ret'.id = i
    /\ \A i \in Tracked \ Tracked' : lastOp'.op = "delete" /\ lastOp'.id = i

WantedBefore(walk, cut, request_id) ==
    {k \in 1..cut : walk[k].req = request_id}

\* the list holds one record for each key of the wanted rows, and nothing
\* else
BuiltFrom(list, walk, cut, request_id) ==
    /\ \A k \in WantedBefore(walk, cut, request_id) :
          \E r \in 1..Len(list) : /\ list[r].pmp_number = walk[k].pmp
                                  /\ list[r].value_number = walk[k].num
    /\ \A r \in 1..Len(list) :
          \E k \in WantedBefore(walk, cut, request_id) :
             /\ list[r].pmp_number = walk[k].pmp
             /\ list[r].value_number = walk[k].num
    /\ \A q, r \in 1..Len(list) :
          (list[q].pmp_number = list[r].pmp_number
             /\ list[q].value_number = list[r].value_number) => q = r

MaxTime == 3
\* counter values are 0..MaxCounter
MaxCounter == 20

\* max_32bit = 2**32, scaled to 2**4
Max32Bit == 16

\* 0.0
ZeroRate == [num |-> 0, den |-> 1]

\* the rate of num per den seconds
Quot(num, den) == [num |-> num, den |-> den]

\* the same quotient
RateEq(a, b) == a.num * b.den = b.num * a.den

\* a rate computation without the wrap correction
calculate_counter_rate_mut(current, previous, time_diff) ==
    IF current >= previous THEN Quot(current - previous, time_diff) ELSE ZeroRate

\* _calculate_counter_rate: `current + max_32bit - previous < max_32bit / 2`
\* is compared after doubling both sides
calculate_counter_rate(current, previous, time_diff) ==
    IF current >= previous
    THEN Quot(current - previous, time_diff)
    ELSE IF 2 * (current + Max32Bit - previous) < Max32Bit
         THEN Quot(current + Max32Bit - previous, time_diff)
         ELSE ZeroRate

\* a bit rate that is the byte rate
BitRate_mut(byte_rate) == byte_rate

\* rates['bytes_in_rate'] * 8
BitRate(byte_rate) == Quot(byte_rate.num * 8, byte_rate.den)

\* TrafficCounter(timestamp)
TrafficCounter(timestamp) ==
    [timestamp |-> timestamp, bytes_in |-> 0, bytes_out |-> 0,
     packets_in |-> 0, packets_out |-> 0, errors_in |-> 0, errors_out |-> 0,
     discards_in |-> 0, discards_out |-> 0]

\* port_key not in self.previous_counters
NoCounter == [timestamp |-> -1]

\* the rates dict of _calculate_rates before anything is computed
ZeroRates ==
    [bytes_in_rate |-> ZeroRate, bytes_out_rate |-> ZeroRate,
     packets_in_rate |-> ZeroRate, packets_out_rate |-> ZeroRate,
     bits_in_rate |-> ZeroRate, bits_out_rate |-> ZeroRate]

\* _calculate_rates, given self.previous_counters.get(port_key)
calculate_rates(previous_counter, current_counter) ==
    IF previous_counter = NoCounter THEN ZeroRates
    ELSE LET time_diff == current_counter.timestamp - previous_counter.timestamp IN
         IF time_diff <= 0 THEN ZeroRates
         ELSE LET bytes_in_rate == calculate_counter_rate(
                      current_counter.bytes_in, previous_counter.bytes_in, time_diff)
                  bytes_out_rate == calculate_counter_rate(
                      current_counter.bytes_out, previous_counter.bytes_out, time_diff)
              IN [bytes_in_rate |-> bytes_in_rate,
                  bytes_out_rate |-> bytes_out_rate,
                  packets_in_rate |-> calculate_counter_rate(
                      current_counter.packets_in, previous_counter.packets_in, time_diff),
                  packets_out_rate |-> calculate_counter_rate(
                      current_counter.packets_out, previous_counter.packets_out, time_diff),
                  bits_in_rate |-> BitRate(bytes_in_rate),
                  bits_out_rate |-> BitRate(bytes_out_rate)]

\* the (current, previous) values the counters other than bytes_in take
OtherPairs == {<<0, 0>>, <<Max32Bit - 3, 4>>, <<4, Max32Bit - 3>>, <<2, Max32Bit + 2>>}

PacketPairs == {<<Max32Bit - 3, 4>>, <<4, Max32Bit - 3>>}

\* the time of the cached sample; the current sample is older, as old, or newer
PreviousTime == 1

\* _calculate_rates(port_key, current_counter) is called: the cache holds no
\* counter for the port key, or one of any age and any values
RatesInit ==
    /\ MgrInit
    /\ col = NoCol
    /\ opLog = <<>>
    /\ gr = NoWalk
    /\ dp = NoDisc
    /\ wr = NoWriter
    /\ cl = NoCleanup
    /\ sc = NoSched
    /\ \E has_previous \in BOOLEAN, t0 \in {PreviousTime}, t1 \in 0..MaxTime,
          c \in 0..MaxCounter, p \in 0..MaxCounter,
          bo \in OtherPairs, pi \in PacketPairs, po \in PacketPairs :
         /\ ~has_previous => p = 0
         /\ pr = [pc |-> "rates",
                  previous_counter |->
                     IF has_previous
                     THEN [TrafficCounter(t0) EXCEPT !.bytes_in = p, !.bytes_out = bo[2],
                              !.packets_in = pi[2], !.packets_out = po[2]]
                     ELSE NoCounter,
                  current_counter |->
                     [TrafficCounter(t1) EXCEPT !.bytes_in = c, !.bytes_out = bo[1],
                         !.packets_in = pi[1], !.packets_out = po[1]],
                  rates |-> ZeroRates]

\* _calculate_rates returns
CalculateRates ==
    /\ pr.pc = "rates"
    /\ pr' = [pr EXCEPT !.pc = "rates_returned",
                        !.rates = calculate_rates(pr.previous_counter, pr.current_counter)]
    /\ UNCHANGED <<active_requests, pc, ex, ret, lastOp, hist, col, opLog, gr, dp, wr, cl, sc>>

RatesNext == CalculateRates

SpecRates == RatesInit /\ [][RatesNext]_vars

(***************************************************************************)
(* Claims about the rate computation, checked under SpecRates.             *)
(***************************************************************************)

\* the rate the statement gives for one counter
ClaimedRate(current, previous, dt) ==
    IF current >= previous THEN Quot(current - previous, dt)
    ELSE IF current + Max32Bit - previous < Max32Bit \div 2
         THEN Quot(current + Max32Bit - previous, dt)
         ELSE ZeroRate

\* a call with a previous sample and a positive time difference has returned
RatesComputed ==
    /\ pr.pc = "rates_returned"
    /\ pr.previous_counter # NoCounter
    /\ pr.current_counter.timestamp - pr.previous_counter.timestamp > 0

\* C13: with a previous sample and a time difference > 0, each of the four
\* rates is, from its own counter alone, (current - previous)/dt when
\* current >= previous, (current + 2^32 - previous)/dt when current <
\* previous and that sum is below 2^31, and 0 otherwise.
C13_CounterRate ==
    RatesComputed =>
        LET c == pr.current_counter
            p == pr.previous_counter
            dt == c.timestamp - p.timestamp
        IN /\ RateEq(pr.rates.bytes_in_rate, ClaimedRate(c.bytes_in, p.bytes_in, dt))
           /\ RateEq(pr.rates.bytes_out_rate, ClaimedRate(c.bytes_out, p.bytes_out, dt))
           /\ RateEq(pr.rates.packets_in_rate, ClaimedRate(c.packets_in, p.packets_in, dt))
           /\ RateEq(pr.rates.packets_out_rate, ClaimedRate(c.packets_out, p.packets_out, dt))

\* C13 witness: the example of the statement, scaled: a previous value just
\* below the wrap value and a small current value one second later give the
\* wrapped difference, while another counter of the same call counts as reset.
C13_Witness ==
    /\ RatesComputed
    /\ pr.previous_counter.bytes_in = Max32Bit - 3
    /\ pr.current_counter.bytes_in = 4
    /\ pr.current_counter.timestamp - pr.previous_counter.timestamp = 1
    /\ pr.rates.bytes_in_rate = Quot(7, 1)
    /\ pr.current_counter.bytes_out < pr.previous_counter.bytes_out
    /\ pr.rates.bytes_out_rate = ZeroRate

\* C14: without a cached previous sample, or with a time difference <= 0,
\* all six rates are 0; otherwise each bit rate is its byte rate times 8.
C14_ZeroOrTimesEight ==
    pr.pc = "rates_returned" =>
        IF RatesComputed
        THEN /\ pr.rates.bits_in_rate.num * pr.rates.bytes_in_rate.den
                  = 8 * pr.rates.bytes_in_rate.num * pr.rates.bits_in_rate.den
             /\ pr.rates.bits_out_rate.num * pr.rates.bytes_out_rate.den
                  = 8 * pr.rates.bytes_out_rate.num * pr.rates.bits_out_rate.den
        ELSE \A r \in DOMAIN pr.rates : RateEq(pr.rates[r], ZeroRate)

\* C14 witness: a call with a nonzero byte rate has returned, whose bit rate
\* is eight times as large
C14_Witness ==
    /\ RatesComputed
    /\ pr.rates.bytes_in_rate.num > 0
    /\ pr.rates.bits_in_rate.num = 8 * pr.rates.bytes_in_rate.num
    /\ pr.rates.bits_in_rate.den = pr.rates.bytes_in_rate.den

\* C36: every rate the computation returns (bytes, packets and bits) is >= 0,
\* for all non-negative counter values, values at or above 2^32 included,
\* and every time difference > 0.
C36_RatesNonNegative ==
    RatesComputed =>
        \A r \in DOMAIN pr.rates : pr.rates[r].num >= 0 /\ pr.rates[r].den > 0

(***************************************************************************)
(* PortTrafficCollector._process_pm_results and _parse_counter_values      *)
(*                                                                         *)
(* A port key f"{ne_id}|{port_id}" is the pair of its two parts.  A        *)
(* parameter name is the set of the keywords of _parse_counter_values that *)
(* occur in its lower-cased text.  A parameter value is its text kind and  *)
(* the integer the conversion yields: "digits" (val.isdigit()), "float"    *)
(* (int(float(val)) succeeds), "text" (float(val) raises ValueError) and   *)
(* "inf" (float(val) is infinite: int() raises OverflowError).             *)
(***************************************************************************)
\* value_results has 0..MaxValues records
MaxValues == 3

\* the ports of the batch, by port key
PortA == <<"1", "1">>
PortB == <<"1", "2">>
BatchPortKeys == {PortA, PortB}

\* ne_id and port_id of a point record: a port of the batch, a port that is
\* not in the batch, or a missing ne_id / port_id (pmp.get gives None)
PointShapes ==
    {[ne_id |-> "1", port_id |-> "1"], [ne_id |-> "1", port_id |-> "2"],
     [ne_id |-> "1", port_id |-> "9"], [ne_id |-> "None", port_id |-> "1"],
     [ne_id |-> "1", port_id |-> "None"]}

\* the port keys the counter cache is indexed by
CacheKeys == BatchPortKeys \cup {<<"1", "9">>}

InKeywords == {"in", "rx", "receive", "ingress", "input"}
OutKeywords == {"out", "tx", "transmit", "egress", "output"}
ByteKeywords == {"bytes", "octets", "byte"}
PacketKeywords == {"packets", "frames", "pkts", "pkt", "frame"}
ErrorKeywords == {"error"}
DiscardKeywords == {"discard", "drop", "dropped"}

\* any(x in param_lower for x in keywords)
HasAny(param, keywords) == param \cap keywords # {}

\* a classification that tries the outbound keywords first
FieldOf_mut(param) ==
    LET dir == IF HasAny(param, OutKeywords) THEN "out"
               ELSE IF HasAny(param, InKeywords) THEN "in" ELSE "none"
        field(i, o) == IF dir = "in" THEN i ELSE IF dir = "out" THEN o ELSE "none"
    IN IF HasAny(param, ByteKeywords) THEN field("bytes_in", "bytes_out")
       ELSE IF HasAny(param, PacketKeywords) THEN field("packets_in", "packets_out")
       ELSE IF HasAny(param, ErrorKeywords) THEN field("errors_in", "errors_out")
       ELSE IF HasAny(param, DiscardKeywords) THEN field("discards_in", "discards_out")
       ELSE "none"

\* the counter field a parameter name is written to, "none" when it is not
\* written: the if/elif chain of _parse_counter_values
FieldOf(param) ==
    LET dir == IF HasAny(param, InKeywords) THEN "in"
               ELSE IF HasAny(param, OutKeywords) THEN "out" ELSE "none"
        field(i, o) == IF dir = "in" THEN i ELSE IF dir = "out" THEN o ELSE "none"
    IN IF HasAny(param, ByteKeywords) THEN field("bytes_in", "bytes_out")
       ELSE IF HasAny(param, PacketKeywords) THEN field("packets_in", "packets_out")
       ELSE IF HasAny(param, ErrorKeywords) THEN field("errors_in", "errors_out")
       ELSE IF HasAny(param, DiscardKeywords) THEN field("discards_in", "discards_out")
       ELSE "none"

\* the conversion of param_value: "ok" with numeric_value = val.n, "skip"
\* (the inner except: continue), or "raise" (OverflowError, which no except
\* clause of _parse_counter_values names)
Conversion(val) ==
    CASE val.kind = "digits" -> "ok"
      [] val.kind = "float" -> "ok"
      [] val.kind = "text" -> "skip"
      [] val.kind = "inf" -> "raise"

RECURSIVE parse_counter_values(_, _)
\* _parse_counter_values(values), continued from counter: the counter, or
\* "raise" when a conversion raised
parse_counter_values(values, counter) ==
    IF values = <<>> THEN [raised |-> FALSE, counter |-> counter]
    ELSE LET value == Head(values)
             how == Conversion(value.param_value)
             name == FieldOf(value.param_name)
         IN IF how = "raise" THEN [raised |-> TRUE, counter |-> counter]
            ELSE IF how = "skip" \/ name = "none"
                 THEN parse_counter_values(Tail(values), counter)
                 ELSE parse_counter_values(Tail(values),
                          [counter EXCEPT ![name] = value.param_value.n])

\* `if ne_id and port_id: port_key = ...; if port_key in ports`
Correlated(pmp, ports) ==
    /\ pmp.ne_id # "None"
    /\ pmp.port_id # "None"
    /\ <<pmp.ne_id, pmp.port_id>> \in ports

\* pmp_values[pmp_number]: the value records of a point, in list order
ValuesOf(value_results, pmp_number) ==
    SelectSeq(value_results, LAMBDA v : v.pmp_number = pmp_number)

\* a cache that keeps the sample it has
UpdatedCounters_mut(previous_counters, port_key, current_counter) == previous_counters

\* `self.previous_counters[port_key] = current_counter`
UpdatedCounters(previous_counters, port_key, current_counter) ==
    [previous_counters EXCEPT ![port_key] = current_counter]

RECURSIVE process_points(_, _, _, _, _)
\* the loop `for pmp_number, port_mapping in pmp_to_port.items()` over the
\* correlated points left, with the records and the cache built so far
process_points(points, value_results, current_time, records, previous_counters) ==
    IF points = <<>>
    THEN [records |-> records, previous_counters |-> previous_counters, raised |-> FALSE]
    ELSE LET pmp == Head(points)
             port_key == <<pmp.ne_id, pmp.port_id>>
             values == ValuesOf(value_results, pmp.pmp_number)
         IN IF values = <<>>
            THEN process_points(Tail(points), value_results, current_time,
                                records, previous_counters)
            ELSE LET parsed == parse_counter_values(values, TrafficCounter(current_time))
                     current_counter == parsed.counter
                     record == [pmp_number |-> pmp.pmp_number, port_key |-> port_key,
                                counter |-> current_counter,
                                rates |-> calculate_rates(previous_counters[port_key],
                                                          current_counter)]
                 IN IF parsed.raised
                    THEN [records |-> records, previous_counters |-> previous_counters,
                          raised |-> TRUE]
                    ELSE process_points(Tail(points), value_results, current_time,
                             Append(records, record),
                             UpdatedCounters(previous_counters, port_key, current_counter))

\* _process_pm_results(pmp_results, value_results, ports) at current_time
process_pm_results(pmp_results, value_results, ports, current_time, previous_counters) ==
    process_points(SelectSeq(pmp_results, LAMBDA pmp : Correlated(pmp, ports)),
                   value_results, current_time, <<>>, previous_counters)

\* the parameters of the value records: name and value text
ValueShapes ==
    {[param_name |-> {"octets", "in"}, kind |-> "digits"],
     [param_name |-> {"octets", "out"}, kind |-> "float"],
     [param_name |-> {"octets", "in"}, kind |-> "text"],
     [param_name |-> {"octets", "in"}, kind |-> "inf"]}

\* the point records of a request: distinct pmp numbers, any shapes
PointLists ==
    {<<>>} \cup
    {<<[pmp_number |-> n, ne_id |-> a.ne_id, port_id |-> a.port_id]>> :
        n \in PmpNumbers, a \in PointShapes} \cup
    {<<[pmp_number |-> 1, ne_id |-> a.ne_id, port_id |-> a.port_id],
       [pmp_number |-> 2, ne_id |-> b.ne_id, port_id |-> b.port_id]>> :
        a \in PointShapes, b \in PointShapes}

\* the value record at position i of value_results; its number is 10 + i
ValueRecord(i, pmp_number, shape) ==
    [pmp_number |-> pmp_number, value_number |-> i, param_name |-> shape.param_name,
     param_value |-> [kind |-> shape.kind, n |-> 10 + i]]

ValueLists ==
    UNION {{[i \in 1..n |-> ValueRecord(i, f[i][1], f[i][2])] :
              f \in [1..n -> PmpNumbers \X ValueShapes]} : n \in 0..MaxValues}

\* the counter cached for PortA by an earlier cycle
OldCounter == [TrafficCounter(1) EXCEPT !.bytes_in = 5]

\* _process_pm_results is called at time 2 for a batch of PortA and PortB
ProcessInit ==
    /\ MgrInit
    /\ col = NoCol
    /\ opLog = <<>>
    /\ gr = NoWalk
    /\ dp = NoDisc
    /\ wr = NoWriter
    /\ cl = NoCleanup
    /\ sc = NoSched
    /\ \E pmp_results \in PointLists, value_results \in ValueLists,
          old \in {NoCounter, OldCounter} :
         pr = [pc |-> "process", ports |-> BatchPortKeys,
               pmp_results |-> pmp_results, value_results |-> value_results,
               current_time |-> 2,
               previous_counters |-> [k \in CacheKeys |-> IF k = PortA THEN old ELSE NoCounter],
               cached_before |-> [k \in CacheKeys |-> IF k = PortA THEN old ELSE NoCounter],
               records |-> <<>>, raised |-> FALSE]

\* _process_pm_results returns its records
ProcessPmResults ==
    /\ pr.pc = "process"
    /\ LET out == process_pm_results(pr.pmp_results, pr.value_results, pr.ports,
                                     pr.current_time, pr.previous_counters)
       IN pr' = [pr EXCEPT !.pc = "processed", !.records = out.records,
                           !.previous_counters = out.previous_counters,
                           !.raised = out.raised]
    /\ UNCHANGED <<active_requests, pc, ex, ret, lastOp, hist, col, opLog, gr, dp, wr, cl, sc>>

ProcessNext == ProcessPmResults

SpecProcess == ProcessInit /\ [][ProcessNext]_vars

(***************************************************************************)
(* Claims about _process_pm_results, checked under SpecProcess.            *)
(***************************************************************************)

\* the point records the statement expects a record for: ne_id and port_id
\* present and naming a port of the batch, and at least one value record
ExpectedPoints ==
    SelectSeq(pr.pmp_results,
              LAMBDA pmp : /\ Correlated(pmp, pr.ports)
                           /\ \E i \in 1..Len(pr.value_results) :
                                 pr.value_results[i].pmp_number = pmp.pmp_number)

CounterFields ==
    {"bytes_in", "bytes_out", "packets_in", "packets_out",
     "errors_in", "errors_out", "discards_in", "discards_out"}

\* every counter field of a record is 0 or the number of a value record of
\* the record's own pmp_number
OwnValuesOnly ==
    \A r \in 1..Len(pr.records) : \A f \in CounterFields :
        pr.records[r].counter[f] # 0 =>
            \E i \in 1..Len(pr.value_results) :
               /\ pr.value_results[i].pmp_number = pr.records[r].pmp_number
               /\ pr.value_results[i].param_value.n = pr.records[r].counter[f]

\* C12: the returned records are, one each and in order, those of the point
\* records that name a port of the batch and have at least one value
\* record; their counters come from their own value records only; points
\* with absent or unknown ne_id/port_id or without values add nothing.
C12_OneRecordPerCorrelatedPoint ==
    pr.pc = "processed" =>
        /\ Len(pr.records) = Len(ExpectedPoints)
        /\ \A r \in 1..Len(pr.records) :
             /\ pr.records[r].pmp_number = ExpectedPoints[r].pmp_number
             /\ pr.records[r].port_key
                   = <<ExpectedPoints[r].ne_id, ExpectedPoints[r].port_id>>
        /\ OwnValuesOnly

\* the value records of a point that convert to a number and whose name
\* selects a counter field
Classifiable(pmp_number) ==
    {i \in 1..Len(pr.value_results) :
        /\ pr.value_results[i].pmp_number = pmp_number
        /\ pr.value_results[i].param_value.kind \in {"digits", "float"}
        /\ FieldOf(pr.value_results[i].param_name) # "none"}

\* a value record whose text is not a finite number
Unparseable(v) == v.param_value.kind \in {"text", "inf"}

\* C27: when value_results holds a value that is not a finite number, the
\* call still returns one record for each point that names a port of the
\* batch and has values, and in each record every counter field holds the
\* number of the last parseable value record of that point and field.
C27_UnparseableValueSkipped ==
    (/\ pr.pc = "processed"
     /\ \E i \in 1..Len(pr.value_results) : Unparseable(pr.value_results[i]))
    => /\ Len(pr.records) = Len(ExpectedPoints)
       /\ \A r \in 1..Len(pr.records) :
            \A i \in Classifiable(pr.records[r].pmp_number) :
               (\A j \in Classifiable(pr.records[r].pmp_number) :
                   FieldOf(pr.value_results[j].param_name)
                      = FieldOf(pr.value_results[i].param_name) => j <= i)
               => pr.records[r].counter[FieldOf(pr.value_results[i].param_name)]
                     = pr.value_results[i].param_value.n

\* C27 restricted to values float() rejects: it holds, the skip works
C27_TextValueSkipped ==
    (\A i \in 1..Len(pr.value_results) : pr.value_results[i].param_value.kind # "inf")
    => C27_UnparseableValueSkipped

\* C33 as claimed: after the results of a batch are processed the cache
\* holds, for every emitted record, the counter sample of that record stamped
\* with the processing time, and the cached counter of every port key without
\* an emitted record is unchanged.
C33_CacheHoldsEveryRecordSample ==
    pr.pc = "processed" =>
        /\ \A r \in 1..Len(pr.records) :
              /\ pr.previous_counters[pr.records[r].port_key] = pr.records[r].counter
              /\ pr.records[r].counter.timestamp = pr.current_time
        /\ \A k \in CacheKeys :
              (\A r \in 1..Len(pr.records) : pr.records[r].port_key # k)
                 => pr.previous_counters[k] = pr.cached_before[k]

\* C33 amended: for every port key with an emitted record the cached counter
\* is the sample of the last record emitted for that key, stamped with the
\* processing time (every record carries that stamp); the cached counters of
\* the port keys without an emitted record are unchanged.
C33_CacheHoldsLastRecordSample ==
    pr.pc = "processed" =>
        /\ \A r \in 1..Len(pr.records) :
              /\ pr.records[r].counter.timestamp = pr.current_time
              /\ (\A q \in (r + 1)..Len(pr.records) :
                     pr.records[q].port_key # pr.records[r].port_key)
                    => pr.previous_counters[pr.records[r].port_key] = pr.records[r].counter
        /\ \A k \in CacheKeys :
              (\A r \in 1..Len(pr.records) : pr.records[r].port_key # k)
                 => pr.previous_counters[k] = pr.cached_before[k]

\* C33 witness: two records were emitted for PortA, whose cached counter of
\* the cycle before is replaced by the second record's sample, and none for
\* the other keys.
C33_Witness ==
    /\ pr.pc = "processed"
    /\ Len(pr.records) = 2
    /\ pr.records[1].port_key = PortA
    /\ pr.records[2].port_key = PortA
    /\ pr.records[1].counter # pr.records[2].counter
    /\ pr.cached_before[PortA] = OldCounter
    /\ pr.previous_counters[PortA] = pr.records[2].counter

\* C37: the rates of every emitted record are computed against the counter
\* that was cached for its port key before the batch was processed, also
\* when two measurement points of the batch resolve to the same port key.
C37_RatesAgainstPreviousCycle ==
    pr.pc = "processed" =>
        \A r \in 1..Len(pr.records) :
           pr.records[r].rates
              = calculate_rates(pr.cached_before[pr.records[r].port_key],
                                pr.records[r].counter)

(***************************************************************************)
(* PortTrafficCollector._parse_counter_values on parameter names           *)
(*                                                                         *)
(* Names are strings; the keyword tests are substring tests on the         *)
(* lower-cased name.                                                       *)
(***************************************************************************)
\* _parse_counter_values is given 0..MaxParams value records
MaxParams == 2

\* str.lower() of one character
LowerChar(c) ==
    CASE c = "B" -> "b" [] c = "D" -> "d" [] c = "E" -> "e" [] c = "F" -> "f"
      [] c = "I" -> "i" [] c = "L" -> "l" [] c = "O" -> "o" [] c = "P" -> "p"
      [] c = "R" -> "r" [] c = "T" -> "t" [] c = "U" -> "u"
      [] OTHER -> c

RECURSIVE Lower(_)
\* param.lower(); the empty string for a missing or empty name
Lower(param) ==
    IF Len(param) = 0 THEN ""
    ELSE LowerChar(SubSeq(param, 1, 1)) \o Lower(SubSeq(param, 2, Len(param)))

\* `x in param_lower`
Contains(param_lower, x) ==
    \E i \in 1..(Len(param_lower) - Len(x) + 1) :
        SubSeq(param_lower, i, i + Len(x) - 1) = x

\* the keywords of the if/elif chain that occur in a name
KeywordsIn(param) ==
    {x \in InKeywords \cup OutKeywords \cup ByteKeywords \cup PacketKeywords
            \cup ErrorKeywords \cup DiscardKeywords : Contains(Lower(param), x)}

\* parameter names as the remote system may send them
ParamNames ==
    {"ifInOctets", "ifOutOctets", "RxPkts", "outgoingFrames", "LineTxBytes",
     "InputErrors", "OutDiscards", "inDroppedPkts", "Utilization", "totalBytes",
     "PortErrors", ""}

\* the keywords that occur in each of the names
KeywordTable == [param \in ParamNames |-> KeywordsIn(param)]

\* the numbers the values convert to
ParamNumbers == {1, 2}

ParamLists ==
    UNION {[1..n -> [param_name : ParamNames, n : ParamNumbers]] : n \in 0..MaxParams}

\* _parse_counter_values is called with a list of values that convert
ParseInit ==
    /\ MgrInit
    /\ col = NoCol
    /\ opLog = <<>>
    /\ gr = NoWalk
    /\ dp = NoDisc
    /\ wr = NoWriter
    /\ cl = NoCleanup
    /\ sc = NoSched
    /\ \E values \in ParamLists :
         pr = [pc |-> "parse", values |-> values, counter |-> TrafficCounter(0)]

\* _parse_counter_values returns its counter
ParseCounterValues ==
    /\ pr.pc = "parse"
    /\ LET values == [i \in 1..Len(pr.values) |->
                         [param_name |-> KeywordTable[pr.values[i].param_name],
                          param_value |-> [kind |-> "digits", n |-> pr.values[i].n]]]
       IN pr' = [pr EXCEPT !.pc = "parsed",
                    !.counter = parse_counter_values(values, TrafficCounter(0)).counter]
    /\ UNCHANGED <<active_requests, pc, ex, ret, lastOp, hist, col, opLog, gr, dp, wr, cl, sc>>

ParseNext == ParseCounterValues

SpecParse == ParseInit /\ [][ParseNext]_vars

(***************************************************************************)
(* Claims about _parse_counter_values, checked under SpecParse.            *)
(***************************************************************************)

\* the families in the order they are tried, with their keywords
Families ==
    <<[name |-> "bytes", keywords |-> ByteKeywords],
      [name |-> "packets", keywords |-> PacketKeywords],
      [name |-> "errors", keywords |-> ErrorKeywords],
      [name |-> "discards", keywords |-> DiscardKeywords]>>

\* a keyword of the set occurs in the lower-cased name
Occurs(param, keywords) == \E x \in keywords : x \in KeywordTable[param]

\* the fields the statement lets a name write: the first family of which a
\* keyword occurs, inbound if an inbound keyword occurs, otherwise outbound
\* if an outbound keyword occurs; no field otherwise
ClaimedFields(param) ==
    {f \in CounterFields :
        \E i \in 1..Len(Families) :
           /\ Occurs(param, Families[i].keywords)
           /\ \A j \in 1..(i - 1) : ~Occurs(param, Families[j].keywords)
           /\ \/ Occurs(param, InKeywords) /\ f = Families[i].name \o "_in"
              \/ /\ ~Occurs(param, InKeywords)
                 /\ Occurs(param, OutKeywords)
                 /\ f = Families[i].name \o "_out"}

\* C34: each value is written to at most one counter field, the one of the
\* first matching family (bytes, packets, errors, discards) and of the
\* inbound direction if an inbound keyword occurs in the lower-cased name,
\* otherwise of the outbound direction if an outbound keyword occurs; a name
\* without family or direction keyword changes no field; a field holds the
\* number of the last value written to it and 0 if none was.
C34_ClassifiedByFirstFamily ==
    pr.pc = "parsed" =>
        /\ \A i \in 1..Len(pr.values) :
              Cardinality(ClaimedFields(pr.values[i].param_name)) <= 1
        /\ \A f \in CounterFields :
              LET writers == {i \in 1..Len(pr.values) :
                                 f \in ClaimedFields(pr.values[i].param_name)}
              IN IF writers = {} THEN pr.counter[f] = 0
                 ELSE \E i \in writers : /\ \A j \in writers : j <= i
                                         /\ pr.counter[f] = pr.values[i].n

\* C34 witness: a name with an outbound word that contains "in" was counted
\* inbound and replaced the earlier value of that field, and a name of two
\* families went to the first.
C34_Witness ==
    /\ pr.pc = "parsed"
    /\ Len(pr.values) = 2
    /\ pr.values[1].param_name = "inDroppedPkts"
    /\ pr.values[2].param_name = "outgoingFrames"
    /\ pr.values[1].n = 1
    /\ pr.counter.packets_in = 2
    /\ pr.counter.discards_in = 0
    /\ pr.counter.packets_out = 0

(***************************************************************************)
(* PortTrafficCollector.discover_ports                                     *)
(*                                                                         *)
(* The remote port table gives every port key no row, rows without a port  *)
(* name, or rows with a port name.  Time is in units of which the cache    *)
(* lives port_cache_ttl; the source's 300 seconds are one such life.       *)
(***************************************************************************)
\* self.port_cache_ttl, in time units
port_cache_ttl == 2
\* the clock runs from port_cache_ttl to MaxNow
MaxNow == 5

PortKeys == {PortA, PortB}
PortNames == {"eth", "lag"}
\* what the port table holds for a port key
PortRows == {"absent", "unnamed"} \cup PortNames
\* PortA has no row, no name or the name "eth"; PortB no row or the name "lag"
PortTables ==
    {t \in [PortKeys -> PortRows] :
        t[PortA] # "lag" /\ t[PortB] \in {"absent", "lag"}}

\* the name_filter arguments: None, or a pattern that matches the name "eth"
NameFilters == {"None", "eth"}

\* _filter_ports(ports, name_filter)
filter_ports(ports, name_filter) ==
    IF name_filter = "None" THEN ports
    ELSE {p \in ports : p.port_name = name_filter}

\* a cache that never expires
CacheValid_mut(now, port_cache_time, port_cache) == port_cache # {}

\* `current_time - self.port_cache_time < self.port_cache_ttl and self.port_cache`
CacheValid(now, port_cache_time, port_cache) ==
    /\ now - port_cache_time < port_cache_ttl
    /\ port_cache # {}

\* the ports dict built from the rows of a walk: the ports with a port name
PortsOf(table) ==
    {[port_key |-> k, port_name |-> table[k]] : k \in {q \in PortKeys : table[q] \in PortNames}}

\* no call of discover_ports was made yet
NoCall == [time |-> -1, name_filter |-> "None", walked |-> FALSE, walk |-> "none",
           result |-> {}, table |-> [k \in PortKeys |-> "absent"], raw_data |-> {}]

\* the port keys in the order the walk delivers their rows
WalkOrder == <<PortA, PortB>>

\* what walk_table returns: every row of the table, or, when a response
\* brings an error, the rows of the first `cut` port keys (walk_table
\* breaks out of its loop and returns what it has)
WalkResult(table, walk, cut) ==
    IF walk = "ok" THEN {k \in PortKeys : table[k] # "absent"}
    ELSE {WalkOrder[i] : i \in {j \in 1..cut : table[WalkOrder[j]] # "absent"}}

\* the table as the rows of raw_data show it
Seen(table, raw_data) ==
    [k \in PortKeys |-> IF k \in raw_data THEN table[k] ELSE "absent"]

\* a cache that is updated entry by entry
NewCache_mut(port_cache, ports) == port_cache \cup ports

\* `self.port_cache = ports`
NewCache(port_cache, ports) == ports

\* discover_ports(name_filter) at time dp.now; the walk, if one is made,
\* delivers the table or ends with an error after the rows of `cut` ports
DiscoverPorts ==
    /\ dp.pc = "ready"
    /\ \E name_filter \in NameFilters, walk \in {"ok", "error"}, cut \in 0..Len(WalkOrder) :
         LET raw_data == WalkResult(dp.table, walk, cut)
             ports == PortsOf(Seen(dp.table, raw_data))
             call == [time |-> dp.now, name_filter |-> name_filter, table |-> dp.table,
                      walked |-> TRUE, walk |-> walk, result |-> {}, raw_data |-> raw_data]
         IN IF CacheValid(dp.now, dp.port_cache_time, dp.port_cache)
            THEN /\ walk = "ok"
                 /\ cut = 0
                 /\ dp' = [dp EXCEPT !.turn = 1 - @,
                              !.last = [call EXCEPT !.walked = FALSE, !.walk = "none",
                                  !.raw_data = {},
                                  !.result = filter_ports(dp.port_cache, name_filter)]]
            ELSE IF raw_data = {}
                 THEN dp' = [dp EXCEPT !.turn = 1 - @, !.walks = (@ + 1) % 2,
                                !.last = call]
                 ELSE dp' = [dp EXCEPT !.turn = 1 - @, !.walks = (@ + 1) % 2,
                                !.port_cache = NewCache(dp.port_cache, ports),
                                !.port_cache_time = dp.now,
                                !.last = [call EXCEPT
                                             !.result = filter_ports(ports, name_filter)]]
    /\ UNCHANGED <<active_requests, pc, ex, ret, lastOp, hist, col, opLog, gr, pr, wr, cl, sc>>

\* time passes
DiscoverTick ==
    /\ dp.pc = "ready"
    /\ dp.now < MaxNow
    /\ dp' = [dp EXCEPT !.now = @ + 1]
    /\ UNCHANGED <<active_requests, pc, ex, ret, lastOp, hist, col, opLog, gr, pr, wr, cl, sc>>

\* the remote system changes its port table
PortTableChange ==
    /\ dp.pc = "ready"
    /\ \E table \in PortTables :
         /\ table # dp.table
         /\ dp' = [dp EXCEPT !.table = table]
    /\ UNCHANGED <<active_requests, pc, ex, ret, lastOp, hist, col, opLog, gr, pr, wr, cl, sc>>

\* a fresh collector (port_cache = {}, port_cache_time = 0), long after the
\* epoch, facing any port table
DiscoverInit ==
    /\ MgrInit
    /\ col = NoCol
    /\ opLog = <<>>
    /\ gr = NoWalk
    /\ pr = NoProc
    /\ wr = NoWriter
    /\ cl = NoCleanup
    /\ sc = NoSched
    /\ \E table \in PortTables :
         dp = [pc |-> "ready", port_cache |-> {}, port_cache_time |-> 0,
               now |-> port_cache_ttl, table |-> table, walks |-> 0, turn |-> 0,
               last |-> NoCall]

DiscoverNext ==
    \/ DiscoverPorts
    \/ DiscoverTick
    \/ PortTableChange

SpecDiscover == DiscoverInit /\ [][DiscoverNext]_vars

(***************************************************************************)
(* Claims about discover_ports, checked under SpecDiscover.                *)
(***************************************************************************)

\* a step that is a call of discover_ports
DiscoverCalled == dp'.turn # dp.turn

\* the call of this step repeats the call before it: same filter, less than
\* port_cache_ttl later, the port table as it was, and the earlier call met
\* no walk error
RepeatedCall ==
    /\ DiscoverCalled
    /\ dp.last # NoCall
    /\ dp.last.walk # "error"
    /\ dp'.last.walk # "error"
    /\ dp'.last.name_filter = dp.last.name_filter
    /\ dp'.last.table = dp.last.table
    /\ dp'.last.time - dp.last.time < port_cache_ttl

\* C15 as stated: the second of two calls within the TTL, with the port
\* table unchanged, walks no table and returns the same map, whatever the
\* port table holds.
C15_SecondCallFromCache ==
    [][RepeatedCall => /\ ~dp'.last.walked
                       /\ dp'.last.result = dp.last.result]_vars

\* C15 amended: a call walks the table exactly when the cache is empty or
\* was filled port_cache_ttl or longer ago; a call that does not walk
\* returns the cached ports, filtered, and leaves the cache alone, so that
\* it returns what the call before it returned for the same filter.
C15_CacheHitIffFreshAndNonEmpty ==
    [][DiscoverCalled =>
         /\ dp'.last.walked <=>
               (dp.port_cache = {} \/ dp.now - dp.port_cache_time >= port_cache_ttl)
         /\ ~dp'.last.walked =>
               /\ dp'.last.result = filter_ports(dp.port_cache, dp'.last.name_filter)
               /\ dp'.port_cache = dp.port_cache
               /\ dp'.port_cache_time = dp.port_cache_time
               /\ dp'.walks = dp.walks
               /\ (dp.last # NoCall /\ dp.last.name_filter = dp'.last.name_filter)
                     => dp'.last.result = dp.last.result]_vars

\* C15 witness: a second call within the TTL was answered from the cache
\* with the ports the first call had found by its walk.
C15_Witness ==
    /\ dp.pc = "ready"
    /\ ~dp.last.walked
    /\ dp.last.time > dp.port_cache_time
    /\ dp.last.result # {}
    /\ dp.last.result = dp.port_cache

\* the call of this step is made port_cache_ttl or longer after the cache
\* was filled
CalledAfterTtl ==
    /\ DiscoverCalled
    /\ dp.now - dp.port_cache_time >= port_cache_ttl

\* the ports the rows delivered to the call of this step describe
FreshPorts == PortsOf(Seen(dp.table, dp'.last.raw_data))

\* the cache is left alone or replaced as a whole by what this walk found
ReplacedWholesale ==
    \/ /\ dp'.port_cache = dp.port_cache
       /\ dp'.port_cache_time = dp.port_cache_time
    \/ /\ dp'.last.walked
       /\ dp'.port_cache = FreshPorts
       /\ dp'.port_cache_time = dp.now

MaxEnq == 4
\* self.batch_size
WriterBatchSize == 2
\* close() is called 0..MaxCloses times
MaxCloses == 2

\* ThreadPoolExecutor(max_workers=2)
PoolWorkers == 2
Workers == 1..PoolWorkers

\* the lengths of the lists add_records is called with
AddSizes == {1, 2}

\* the records numbered from + 1 .. from + k
NewRecords(from, k) == [i \in 1..k |-> from + i]

\* the records of a sequence
RecordsIn(seq) == {seq[i] : i \in 1..Len(seq)}

\* a _connect that never starts the background thread
StartsThread_mut(connected) == FALSE

\* _connect calls _start_background_writer only when the health check passed
StartsThread(connected) == connected

\* a writer after __init__: connected with the background thread started,
\* or not connected (the health check failed) and without that thread
WriterInit ==
    /\ MgrInit
    /\ col = NoCol
    /\ opLog = <<>>
    /\ gr = NoWalk
    /\ pr = NoProc
    /\ dp = NoDisc
    /\ cl = NoCleanup
    /\ sc = NoSched
    /\ \E connected \in BOOLEAN :
         wr = [pc |-> "on", buffer |-> <<>>, lock |-> "free", connected |-> connected,
               was_connected |-> connected, stop_event |-> FALSE,
               timer_pc |-> IF StartsThread(connected) THEN "wait" ELSE "none", timer_batch |-> <<>>,
               queue |-> <<>>, worker |-> [w \in Workers |-> <<>>],
               main_pc |-> "idle", main_batch |-> <<>>, closes |-> 0,
               enq |-> 0, enq_at_close |-> 0,
               batches |-> {}, writes |-> <<>>, dropped |-> {}]

\* a _write_batch without the connection test
write_batch_mut(w, batch, via, ok) ==
    [w EXCEPT !.writes = Append(@, [via |-> via, recs |-> batch,
                                    locked |-> w.lock # "free", ok |-> ok])]

\* a _write_batch that puts the records of a failed write back
write_batch_requeue_mut(w, batch, via, ok) ==
    IF ~w.connected
    THEN [w EXCEPT !.dropped = @ \cup RecordsIn(batch)]
    ELSE [w EXCEPT !.writes = Append(@, [via |-> via, recs |-> batch,
                                         locked |-> w.lock # "free", ok |-> ok]),
                   !.buffer = IF ok THEN @ ELSE batch \o @]

\* _write_batch(batch) called by `via`: skipped when not connected; else the
\* points are handed to write_api.write, which succeeds (ok) or raises; the
\* except clauses log the error and the call returns, nothing is put back
write_batch(w, batch, via, ok) ==
    IF ~w.connected
    THEN [w EXCEPT !.dropped = @ \cup RecordsIn(batch)]
    ELSE [w EXCEPT !.writes = Append(@, [via |-> via, recs |-> batch,
                                         locked |-> w.lock # "free", ok |-> ok])]

\* the outcomes of write_api.write the caller of _write_batch can tell
\* apart: none when the writer is not connected
WriteOutcomes(w) == IF w.connected THEN BOOLEAN ELSE {TRUE}

\* a buffer that keeps its records after the copy
Cleared_mut(buffer) == buffer

\* self.buffer.clear() after batch = self.buffer.copy()
Cleared(buffer) == <<>>

\* an overflow test that fires one record late
Overflow_mut(buffer, batch_size) == Len(buffer) > batch_size

\* `if len(self.buffer) >= self.batch_size`
Overflow(buffer, batch_size) == Len(buffer) >= batch_size

\* add_records(records) with k records, on the scheduler thread
AddRecords ==
    /\ wr.pc = "on"
    /\ wr.lock = "free"
    /\ \E k \in AddSizes :
         /\ wr.enq + k <= MaxEnq
         /\ LET buffer == wr.buffer \o NewRecords(wr.enq, k) IN
            IF Overflow(buffer, WriterBatchSize)
            THEN wr' = [wr EXCEPT !.enq = @ + k, !.buffer = Cleared(buffer),
                           !.queue = Append(@, buffer),
                           !.batches = @ \cup {[via |-> "pool", recs |-> buffer]}]
            ELSE wr' = [wr EXCEPT !.enq = @ + k, !.buffer = buffer]
    /\ UNCHANGED <<active_requests, pc, ex, ret, lastOp, hist, col, opLog, gr, pr, dp, cl, sc>>

\* _background_writer: stop_event.wait(flush_interval) times out
TimerWake ==
    /\ wr.timer_pc = "wait"
    /\ ~wr.stop_event
    /\ wr' = [wr EXCEPT !.timer_pc = "woke"]
    /\ UNCHANGED <<active_requests, pc, ex, ret, lastOp, hist, col, opLog, gr, pr, dp, cl, sc>>

\* _background_writer: the buffer is copied and cleared under the lock, or
\* found empty (`continue`)
TimerSwap ==
    /\ wr.timer_pc = "woke"
    /\ wr.lock = "free"
    /\ IF wr.buffer # <<>>
       THEN wr' = [wr EXCEPT !.timer_pc = "write", !.timer_batch = wr.buffer,
                      !.buffer = Cleared(wr.buffer),
                      !.batches = @ \cup {[via |-> "timer", recs |-> wr.buffer]}]
       ELSE wr' = [wr EXCEPT !.timer_pc = "wait"]
    /\ UNCHANGED <<active_requests, pc, ex, ret, lastOp, hist, col, opLog, gr, pr, dp, cl, sc>>

\* _background_writer: self._write_batch(batch), outside the lock
TimerWrite ==
    /\ wr.timer_pc = "write"
    /\ \E ok \in WriteOutcomes(wr) :
         wr' = [write_batch(wr, wr.timer_batch, "timer", ok) EXCEPT
                   !.timer_pc = "wait", !.timer_batch = <<>>]
    /\ UNCHANGED <<active_requests, pc, ex, ret, lastOp, hist, col, opLog, gr, pr, dp, cl, sc>>

\* _background_writer: the stop event is set, the thread ends
TimerExit ==
    /\ wr.timer_pc = "wait"
    /\ wr.stop_event
    /\ wr' = [wr EXCEPT !.timer_pc = "exit"]
    /\ UNCHANGED <<active_requests, pc, ex, ret, lastOp, hist, col, opLog, gr, pr, dp, cl, sc>>

\* a worker of thread_pool takes the oldest submitted _write_batch call
PoolTake ==
    /\ wr.queue # <<>>
    /\ \E w \in Workers :
         /\ wr.worker[w] = <<>>
         /\ wr' = [wr EXCEPT !.worker[w] = Head(wr.queue), !.queue = Tail(@)]
    /\ UNCHANGED <<active_requests, pc, ex, ret, lastOp, hist, col, opLog, gr, pr, dp, cl, sc>>

\* a worker runs its _write_batch call
PoolWrite ==
    /\ \E w \in Workers :
         /\ wr.worker[w] # <<>>
         /\ \E ok \in WriteOutcomes(wr) :
              wr' = [write_batch(wr, wr.worker[w], "pool", ok) EXCEPT !.worker[w] = <<>>]
    /\ UNCHANGED <<active_requests, pc, ex, ret, lastOp, hist, col, opLog, gr, pr, dp, cl, sc>>

\* flush(), first half: the lock is taken; a non-empty buffer is copied and
\* cleared and the lock is kept for the write, an empty one ends the call.
\* Called by the main thread on its own or as the second step of close().
FlushSwap ==
    /\ wr.main_pc \in {"idle", "close_flush"}
    /\ wr.pc = "on"
    /\ wr.lock = "free"
    /\ LET after == IF wr.main_pc = "idle" THEN "idle" ELSE "close_pool" IN
       IF wr.buffer # <<>>
       THEN wr' = [wr EXCEPT !.lock = "main", !.main_batch = wr.buffer,
                      !.buffer = Cleared(wr.buffer),
                      !.batches = @ \cup {[via |-> "flush", recs |-> wr.buffer]},
                      !.main_pc = IF wr.main_pc = "idle" THEN "flush_write"
                                  ELSE "close_flush_write"]
       ELSE wr' = [wr EXCEPT !.main_pc = after]
    /\ UNCHANGED <<active_requests, pc, ex, ret, lastOp, hist, col, opLog, gr, pr, dp, cl, sc>>

\* flush(), second half: self._write_batch(batch) inside the with block,
\* then the lock is released
FlushWrite ==
    /\ wr.main_pc \in {"flush_write", "close_flush_write"}
    /\ \E ok \in WriteOutcomes(wr) :
         wr' = [write_batch(wr, wr.main_batch, "flush", ok) EXCEPT
                   !.lock = "free", !.main_batch = <<>>,
                   !.main_pc = IF wr.main_pc = "flush_write" THEN "idle" ELSE "close_pool"]
    /\ UNCHANGED <<active_requests, pc, ex, ret, lastOp, hist, col, opLog, gr, pr, dp, cl, sc>>

\* close(): a living background thread gets the stop event and is joined
CloseBegin ==
    /\ wr.pc = "on"
    /\ wr.main_pc = "idle"
    /\ wr.closes < MaxCloses
    /\ IF wr.timer_pc \in {"wait", "woke", "write"}
       THEN wr' = [wr EXCEPT !.stop_event = TRUE, !.main_pc = "close_join",
                      !.enq_at_close = wr.enq]
       ELSE wr' = [wr EXCEPT !.main_pc = "close_flush", !.enq_at_close = wr.enq]
    /\ UNCHANGED <<active_requests, pc, ex, ret, lastOp, hist, col, opLog, gr, pr, dp, cl, sc>>

\* close(): write_thread.join(timeout=10) returns, the thread having ended
\* or, with the thread still inside a write, the ten seconds having passed
CloseJoin ==
    /\ wr.main_pc = "close_join"
    /\ wr.timer_pc \in {"exit", "write"}
    /\ wr' = [wr EXCEPT !.main_pc = "close_flush"]
    /\ UNCHANGED <<active_requests, pc, ex, ret, lastOp, hist, col, opLog, gr, pr, dp, cl, sc>>

\* a shutdown that waits for the submitted calls
PoolDrained_mut(w) == w.queue = <<>> /\ \A x \in Workers : w.worker[x] = <<>>

\* close(): thread_pool.shutdown(wait=True, timeout=30) raises TypeError
\* (shutdown takes no timeout), which the except clause logs: close goes on
\* whatever the pool still holds
PoolDrained(w) == TRUE

\* close(): the pool "shutdown", then write_api.close(), client.close() and
\* connected = False
CloseRelease ==
    /\ wr.main_pc = "close_pool"
    /\ PoolDrained(wr)
    /\ wr' = [wr EXCEPT !.connected = FALSE, !.main_pc = "idle", !.closes = @ + 1]
    /\ UNCHANGED <<active_requests, pc, ex, ret, lastOp, hist, col, opLog, gr, pr, dp, cl, sc>>

WriterNext ==
    \/ AddRecords
    \/ TimerWake
    \/ TimerSwap
    \/ TimerWrite
    \/ TimerExit
    \/ PoolTake
    \/ PoolWrite
    \/ FlushSwap
    \/ FlushWrite
    \/ CloseBegin
    \/ CloseJoin
    \/ CloseRelease

SpecWriter == WriterInit /\ [][WriterNext]_vars

(***************************************************************************)
(* Claims about InfluxDBWriter, checked under SpecWriter.                  *)
(***************************************************************************)

\* a step that is a call of add_records
AddStep == wr'.enq > wr.enq

PoolBatches(w) == {b \in w.batches : b.via = "pool"}

\* C16: add_records submits a flush to the pool exactly when it brings the
\* buffer to batch_size records or more; the submitted batch is the whole
\* buffer, which is left empty; below batch_size nothing is submitted and
\* the records stay buffered; no other step submits to the pool; and a pass
\* of the background thread that finds the buffer empty takes no batch and
\* writes nothing.
C16_OverflowFlush ==
    /\ [][AddStep =>
            LET all == wr.buffer \o NewRecords(wr.enq, wr'.enq - wr.enq) IN
            IF Len(all) >= WriterBatchSize
            THEN /\ wr'.queue = Append(wr.queue, all)
                 /\ wr'.buffer = <<>>
                 /\ PoolBatches(wr') = PoolBatches(wr) \cup {[via |-> "pool", recs |-> all]}
            ELSE /\ wr'.queue = wr.queue
                 /\ wr'.buffer = all
                 /\ wr'.batches = wr.batches]_vars
    /\ [][~AddStep => /\ PoolBatches(wr') = PoolBatches(wr)
                      /\ Len(wr'.queue) <= Len(wr.queue)]_vars
    /\ [][(wr.timer_pc = "woke" /\ wr'.timer_pc # "woke" /\ wr.buffer = <<>>) =>
            /\ wr'.batches = wr.batches
            /\ wr'.writes = wr.writes
            /\ wr'.timer_pc = "wait"]_vars

\* C16 witness: batch_size - 1 records were buffered without a flush and the
\* next record made the one batch that waits in the pool.
C16_Witness ==
    /\ wr.enq = WriterBatchSize
    /\ wr.buffer = <<>>
    /\ wr.queue = <<NewRecords(0, WriterBatchSize)>>
    /\ wr.batches = {[via |-> "pool", recs |-> NewRecords(0, WriterBatchSize)]}

\* C17: no write_api.write call is made by a caller that holds buffer_lock.
C17_NoWriteUnderLock ==
    \A i \in 1..Len(wr.writes) : ~wr.writes[i].locked

\* the batches a record was copied into
BatchesOf(r) == {b \in wr.batches : r \in RecordsIn(b.recs)}

\* where the batches taken from the buffer are: submitted and waiting, with
\* a worker, with the background thread, with flush(), written, or dropped
InFlight ==
    RecordsIn(wr.timer_batch) \cup RecordsIn(wr.main_batch)
       \cup UNION {RecordsIn(wr.queue[i]) : i \in 1..Len(wr.queue)}
       \cup UNION {RecordsIn(wr.worker[w]) : w \in Workers}
Written == UNION {RecordsIn(wr.writes[i].recs) : i \in 1..Len(wr.writes)}

\* C18: every enqueued record is in the buffer or in exactly one batch
\* taken from it, never both and never in two batches; a record in a batch
\* is with exactly one flush: waiting or running, written, or dropped.
C18_ExactlyOneBatch ==
    \A r \in 1..wr.enq :
        /\ Cardinality(BatchesOf(r)) + (IF r \in RecordsIn(wr.buffer) THEN 1 ELSE 0) = 1
        /\ Cardinality({i \in 1..Len(wr.buffer) : wr.buffer[i] = r}) <= 1
        /\ BatchesOf(r) # {} =>
              Cardinality({x \in {"flight", "written", "dropped"} :
                              \/ x = "flight" /\ r \in InFlight
                              \/ x = "written" /\ r \in Written
                              \/ x = "dropped" /\ r \in wr.dropped}) = 1
        /\ Cardinality({i \in 1..Len(wr.writes) : r \in RecordsIn(wr.writes[i].recs)}) <= 1

\* C18 witness: records have left the buffer by all three paths, the
\* overflow submit, the background thread and flush().
C18_Witness ==
    /\ \E b \in wr.batches : b.via = "pool"
    /\ \E b \in wr.batches : b.via = "timer"
    /\ \E b \in wr.batches : b.via = "flush"

\* C19: once the first close() of a writer that was connected has returned,
\* every record enqueued before that close began has been passed to
\* write_api.write.
C19_LosslessShutdown ==
    (wr.was_connected /\ wr.closes = 1 /\ wr.main_pc = "idle") =>
        \A r \in 1..wr.enq_at_close : r \in Written

\* a close() has returned and none is running
Closed == wr.closes >= 1 /\ wr.main_pc = "idle"

\* the writer as close() leaves it: not connected, the stop event set for a
\* background thread that was started, that thread ended or ending
ShutDown(w) ==
    /\ ~w.connected
    /\ w.timer_pc # "woke"
    /\ w.timer_pc # "none" => w.stop_event

\* C20: from the return of the first close() on, nothing is written any
\* more, by a second close() or otherwise, and no record is ever written
\* twice; the second close() cannot get stuck or fail at any of its steps;
\* and whenever a close() has returned the writer is shut down, the second
\* close() leaving the buffer without any record enqueued before it began.
C20_CloseIdempotent ==
    /\ [][wr.closes >= 1 => wr'.writes = wr.writes]_vars
    /\ [](Closed => ShutDown(wr))
    /\ [][wr.closes >= 1 => ShutDown(wr')]_vars
    /\ [][(wr.closes = 1 /\ wr'.closes = 2) =>
            \A i \in 1..Len(wr'.buffer) : wr'.buffer[i] > wr.enq_at_close]_vars
    /\ []((wr.closes = 1 /\ wr.main_pc = "close_flush") => ENABLED FlushSwap)
    /\ []((wr.closes = 1 /\ wr.main_pc = "close_flush_write") => ENABLED FlushWrite)
    /\ []((wr.closes = 1 /\ wr.main_pc = "close_pool") => ENABLED CloseRelease)

\* C20 witness: a second close() has returned on a writer that had written
\* records before its first close().
C20_Witness ==
    /\ wr.closes = 2
    /\ wr.main_pc = "idle"
    /\ wr.writes # <<>>
    /\ wr.enq > wr.enq_at_close

\* a step in which write_api.write was called and raised
FailedWriteStep ==
    /\ Len(wr'.writes) = Len(wr.writes) + 1
    /\ ~wr'.writes[Len(wr'.writes)].ok

\* the caller of the write a step made
StepVia == wr'.writes[Len(wr'.writes)].via

\* the records of the write a step made
StepRecords == RecordsIn(wr'.writes[Len(wr'.writes)].recs)

\* C21: a batch whose storage write raised is dropped and nobody sees the
\* error: the step puts none of its records back into the buffer or the
\* pool and makes no new batch, the caller goes on as after a success
\* (the background thread waits for its next pass, flush() returns to its
\* caller, close() goes on to the pool, the worker is free again), the
\* writer stays connected, no record of a failed write is ever handed to
\* write_api.write a second time, and a batch that reaches _write_batch on
\* a connected writer is handed to write_api.write whatever failed before.
C21_FailedBatchDropped ==
    /\ [][FailedWriteStep =>
            /\ wr'.buffer = wr.buffer
            /\ wr'.queue = wr.queue
            /\ wr'.batches = wr.batches
            /\ wr'.connected = wr.connected
            /\ wr'.stop_event = wr.stop_event
            /\ StepRecords \cap (RecordsIn(wr'.buffer) \cup InFlight') = {}
            /\ StepVia = "timer" => wr'.timer_pc = "wait"
            /\ StepVia = "flush" =>
                  /\ wr'.lock = "free"
                  /\ wr'.main_pc = IF wr.main_pc = "flush_write" THEN "idle" ELSE "close_pool"
            /\ StepVia = "pool" =>
                  \E w \in Workers : wr'.worker = [wr.worker EXCEPT ![w] = <<>>]]_vars
    /\ [](\A i, j \in 1..Len(wr.writes) :
             i # j => RecordsIn(wr.writes[i].recs) \cap RecordsIn(wr.writes[j].recs) = {})
    /\ [][(wr.connected /\ InFlight' # InFlight /\ wr'.batches = wr.batches
              /\ wr'.queue = wr.queue)
            => Len(wr'.writes) = Len(wr.writes) + 1 /\ StepRecords = InFlight \ InFlight']_vars

\* C21 witness: a write failed, the writer went on, and a batch flushed
\* after it was written with success.
C21_Witness ==
    \E i, j \in 1..Len(wr.writes) :
        /\ i < j
        /\ ~wr.writes[i].ok
        /\ wr.writes[j].ok
        /\ wr.buffer = <<>>
        /\ wr.main_pc = "idle"

(***************************************************************************)
(* The writer with its background thread scheduled fairly: each step of    *)
(* _background_writer that stays possible is eventually taken.  Nothing is *)
(* assumed of the callers of add_records, flush and close, nor of the pool.*)
(***************************************************************************)
SpecWriterLive ==
    /\ SpecWriter
    /\ WF_vars(TimerWake)
    /\ WF_vars(TimerSwap)
    /\ WF_vars(TimerWrite)

\* record r waits in the buffer
Buffered(r) == r \in RecordsIn(wr.buffer)

\* record r has been copied into a batch
Batched(r) == \E b \in wr.batches : r \in RecordsIn(b.recs)

\* C22 as stated: in every writer that was constructed, a buffered record
\* is eventually copied into a batch unless close() is called first.
C22_EveryWriterFlushes ==
    (wr.buffer # <<>>)
       ~> ((\A r \in RecordsIn(wr.buffer) : Batched(r))
              \/ wr.buffer = <<>> \/ wr.stop_event \/ wr.closes > 0 \/ wr.main_pc # "idle")

\* C22 amended: in a writer whose health check passed at construction (so
\* that _connect started the background thread), a non-empty buffer is
\* eventually emptied unless close() is called first, and a record leaves
\* the buffer only by being copied into a batch, together with the whole
\* buffer; with no further add_records or flush() call the batch is the
\* background thread's, which then hands it to _write_batch.
C22_StartedWriterFlushes ==
    /\ (wr.buffer # <<>> /\ wr.was_connected)
          ~> (wr.buffer = <<>> \/ wr.stop_event \/ wr.closes > 0 \/ wr.main_pc # "idle")
    /\ [][\A r \in 1..MaxEnq : Buffered(r) =>
             IF wr'.buffer = <<>> THEN Batched(r)' ELSE Buffered(r)']_vars
    /\ [][(wr.buffer # <<>> /\ wr'.buffer = <<>> /\ wr'.enq = wr.enq /\ wr'.main_pc = wr.main_pc)
             => /\ wr'.timer_batch = wr.buffer
                /\ wr'.timer_pc = "write"]_vars
    /\ (wr.timer_pc = "write") ~> (wr.timer_pc # "write")
    /\ [][(wr.timer_pc = "write" /\ wr'.timer_pc # "write")
             => wr.timer_batch # <<>> /\
                RecordsIn(wr.timer_batch) \subseteq (Written' \cup wr'.dropped)]_vars

\* C22 witness: one record, below batch_size, was taken from the buffer by
\* the background thread and written, with no other call made.
C22_Witness ==
    /\ wr.enq = 1
    /\ wr.closes = 0
    /\ wr.batches = {[via |-> "timer", recs |-> <<1>>]}
    /\ Len(wr.writes) = 1
    /\ wr.writes[1].via = "timer"

\* C23: records reach write_api.write in the order they were enqueued:
\* inside every write the records are in enqueue order, and a write made
\* earlier holds only records enqueued before those of a write made later.
C23_WritesInEnqueueOrder ==
    /\ \A i \in 1..Len(wr.writes) :
          \A m, n \in 1..Len(wr.writes[i].recs) :
              m < n => wr.writes[i].recs[m] < wr.writes[i].recs[n]
    /\ \A i, j \in 1..Len(wr.writes) :
          i < j => \A a \in RecordsIn(wr.writes[i].recs), b \in RecordsIn(wr.writes[j].recs) :
                      a < b

\* C38: whenever no add_records call is in progress (a call runs from
\* taking buffer_lock to releasing it, one step here) the buffer holds
\* fewer than batch_size records, whatever the interleaving of add_records,
\* timer flush, flush and close, with storage failing or the writer not
\* connected.
C38_BufferBelowBatchSize ==
    wr.pc = "on" => Len(wr.buffer) < WriterBatchSize

\* C38 witness: a writer that never was connected has taken all the records
\* of the run, more than two batches, and its buffer is one short of a batch.
C38_Witness ==
    /\ wr.pc = "on"
    /\ ~wr.was_connected
    /\ wr.enq = MaxEnq
    /\ wr.enq >= 2 * WriterBatchSize
    /\ Len(wr.buffer) = WriterBatchSize - 1

(***************************************************************************)
(* PMRequestManager.cleanup_old_requests                                   *)
(*                                                                        *)
(* cl.requests is active_requests with the 'created_time' of each entry;   *)
(* one call of cleanup_old_requests scans it, then calls                   *)
(* delete_pm_request for each selected id, whose destroy SET succeeds or   *)
(* fails.  cl.remote lists the SNMP operations the call sent.              *)
(***************************************************************************)
\* requests tracked at the call: ids 1..MaxTracked, some of them untracked
MaxTracked == 2
\* time.time() at the call
CleanupNow == 5
\* the 'created_time' of the tracked entries: ages from 1 up to twice the
\* largest max_age and one more
CreatedTimes == 0..4
\* the values of max_age and of max_failed_age
AgeLimits == {1, 2}

TrackedIds == 1..MaxTracked

\* an id without an entry in active_requests
NoEntry == [state |-> "-", created_time |-> 0]

\* the entries an id can have at the call
Entries ==
    {NoEntry} \cup [state : PMRequestState, created_time : CreatedTimes]

\* a selection that takes a request at the age limit already
OlderThan_mut(age, limit) == age >= limit

\* `age > max_age`
OlderThan(age, limit) == age > limit

\* the counter of cleanup_stats the scan adds one to for an entry, "none"
\* when should_cleanup stays False
CleanupCategory(state, age, max_age, max_failed_age) ==
    IF state = "FINISHED" /\ OlderThan(age, max_age) THEN "old_requests"
    ELSE IF state \in {"FAILED", "CANCELLED"} /\ OlderThan(age, max_failed_age)
    THEN "failed_requests"
    ELSE IF state \in {"PENDING", "STARTED"} /\ OlderThan(age, max_age * 2)
    THEN "old_requests"
    ELSE "none"

\* to_delete after the scan of the call
ToDelete(requests, current_time, max_age, max_failed_age) ==
    {i \in TrackedIds :
        /\ requests[i] # NoEntry
        /\ CleanupCategory(requests[i].state, current_time - requests[i].created_time,
                           max_age, max_failed_age) # "none"}

CleanupInit ==
    /\ MgrInit
    /\ col = NoCol
    /\ opLog = <<>>
    /\ gr = NoWalk
    /\ pr = NoProc
    /\ dp = NoDisc
    /\ wr = NoWriter
    /\ sc = NoSched
    /\ \E requests \in [TrackedIds -> Entries], max_age \in AgeLimits,
          max_failed_age \in AgeLimits :
         cl = [pc |-> "call", requests |-> requests, before |-> requests,
               current_time |-> CleanupNow, max_age |-> max_age,
               max_failed_age |-> max_failed_age, to_delete |-> {},
               remote |-> {}, stats |-> [old_requests |-> 0, failed_requests |-> 0,
                                         total_cleaned |-> 0, cleanup_errors |-> 0]]

\* cleanup_old_requests(max_age, max_failed_age): the scan, then one
\* delete_pm_request per selected id; set_failed are the ids whose destroy
\* SET comes back with an error, which keeps their entry
CleanupOldRequests ==
    /\ cl.pc = "call"
    /\ LET to_delete == ToDelete(cl.requests, cl.current_time, cl.max_age, cl.max_failed_age)
           cat(i) == CleanupCategory(cl.requests[i].state,
                                     cl.current_time - cl.requests[i].created_time,
                                     cl.max_age, cl.max_failed_age)
       IN \E set_failed \in SUBSET to_delete :
            cl' = [cl EXCEPT
                     !.pc = "returned",
                     !.to_delete = to_delete,
                     !.remote = {[op |-> "set_destroy", id |-> i] : i \in to_delete},
                     !.requests = [i \in TrackedIds |->
                                      IF i \in to_delete \ set_failed THEN NoEntry
                                      ELSE cl.requests[i]],
                     !.stats = [old_requests |->
                                    Cardinality({i \in to_delete : cat(i) = "old_requests"}),
                                failed_requests |->
                                    Cardinality({i \in to_delete : cat(i) = "failed_requests"}),
                                total_cleaned |-> Cardinality(to_delete \ set_failed),
                                cleanup_errors |-> Cardinality(set_failed)]]
    /\ UNCHANGED <<active_requests, pc, ex, ret, lastOp, hist, col, opLog, gr, pr, dp, wr, sc>>

CleanupNext == CleanupOldRequests

SpecCleanup == CleanupInit /\ [][CleanupNext]_vars

\* the age of the entry of id i when the call was made
AgeBefore(i) == cl.current_time - cl.before[i].created_time

\* the requests the statement selects
Selected ==
    {i \in TrackedIds :
        /\ cl.before[i] # NoEntry
        /\ \/ cl.before[i].state = "FINISHED" /\ AgeBefore(i) > cl.max_age
           \/ cl.before[i].state \in {"FAILED", "CANCELLED"} /\ AgeBefore(i) > cl.max_failed_age
           \/ cl.before[i].state \in {"PENDING", "STARTED"} /\ AgeBefore(i) > 2 * cl.max_age}

\* C24: a finished cleanup_old_requests call has sent a destroy SET for
\* exactly the tracked requests that were FINISHED and older than max_age,
\* FAILED or CANCELLED and older than max_failed_age, or PENDING or STARTED
\* and older than twice max_age; every other request is tracked as before
\* with its entry unchanged; an untracked id is not touched; and the call
\* sent nothing but these destroy SETs.
C24_CleanupSelection ==
    cl.pc = "returned" =>
        /\ {x.id : x \in cl.remote} = Selected
        /\ \A x \in cl.remote : x.op = "set_destroy"
        /\ \A i \in TrackedIds \ Selected : cl.requests[i] = cl.before[i]
        /\ \A i \in Selected : cl.requests[i] \in {NoEntry, cl.before[i]}

\* C24 witness: of two tracked requests of the same age, exactly at
\* max_age + 1, the FINISHED one was deleted and the STARTED one was kept.
C24_Witness ==
    /\ cl.pc = "returned"
    /\ cl.before[1].state = "FINISHED"
    /\ cl.before[2].state = "STARTED"
    /\ AgeBefore(1) = cl.max_age + 1
    /\ AgeBefore(2) = cl.max_age + 1
    /\ cl.requests[1] = NoEntry
    /\ cl.requests[2] = cl.before[2]

\* C35: the state stored on a tracked request is always CREATED, FINISHED or
\* FAILED (PENDING, STARTED, CANCELLING and CANCELLED are never stored), so
\* for a tracked request of the manager, at any age and any age limits, the
\* scan of cleanup_old_requests selects it only by its FINISHED or FAILED
\* rule: the PENDING/STARTED rule selects nothing and a request in CREATED is
\* never selected.
C35_StoredStatesAndCleanup ==
    \A i \in Tracked :
       LET state == active_requests[i].state IN
       /\ state \in {"CREATED", "FINISHED", "FAILED"}
       /\ \A age \in 0..CleanupNow, max_age \in AgeLimits, max_failed_age \in AgeLimits :
             LET category == CleanupCategory(state, age, max_age, max_failed_age) IN
             /\ state = "CREATED" => category = "none"
             /\ category # "none" =>
                   \/ state = "FINISHED" /\ age > max_age
                   \/ state = "FAILED" /\ age > max_failed_age

\* C35 witness: a poll has read STARTED from the remote system and the
\* stored state of the request is still CREATED.
C35_Witness ==
    /\ pc = "poll"
    /\ ex.state = "STARTED"
    /\ ex.request_id \in Tracked
    /\ active_requests[ex.request_id].state = "CREATED"
    /\ CleanupCategory("STARTED", CleanupNow, 1, 1) = "old_requests"

(***************************************************************************)
(* PortTrafficCollector.cleanup_old_counters                               *)
(*                                                                        *)
(* pr.previous_counters is the counter cache as the sequence of its items  *)
(* in dict order, each [key, timestamp]; one call prunes it.               *)
(***************************************************************************)
\* the cache holds 0..MaxCached counters at the call
MaxCached == 3
\* time.time() at the call; the timestamps are in 0..CountersNow
CountersNow == 4
\* max_age is in 0..MaxCounterAge
MaxCounterAge == 2

\* the caches of n counters
CachesOf(n) ==
    {[i \in 1..n |-> [key |-> i, timestamp |-> ts[i]]] : ts \in [1..n -> 0..CountersNow]}

\* the items of seq that satisfy Keep, in order
RECURSIVE SelectItems(_, _)
SelectItems(seq, keep) ==
    IF seq = <<>> THEN <<>>
    ELSE IF Head(seq).key \in keep
         THEN <<Head(seq)>> \o SelectItems(Tail(seq), keep)
         ELSE SelectItems(Tail(seq), keep)

\* a sort that puts the oldest first
SortsBefore_mut(a, b) == a.timestamp < b.timestamp

\* key=lambda x: x[1].timestamp, reverse=True: a goes before b
SortsBefore(a, b) == a.timestamp > b.timestamp

\* sorted(items, key=..., reverse=True): item x put into an already sorted
\* sequence behind every item that does not sort after it (the sort is
\* stable)
RECURSIVE InsertSorted(_, _)
InsertSorted(x, sorted) ==
    IF sorted = <<>> THEN <<x>>
    ELSE IF SortsBefore(x, Head(sorted))
         THEN <<x>> \o sorted
         ELSE <<Head(sorted)>> \o InsertSorted(x, Tail(sorted))

RECURSIVE SortedItems(_)
SortedItems(seq) ==
    IF seq = <<>> THEN <<>>
    ELSE InsertSorted(seq[Len(seq)], SortedItems(SubSeq(seq, 1, Len(seq) - 1)))

\* cleanup_old_counters: the cache and the stats it returns
cleanup_old_counters(previous_counters, current_time, max_age, max_counters) ==
    LET expired_ports == {previous_counters[i].key : i \in
                             {j \in 1..Len(previous_counters) :
                                 current_time - previous_counters[j].timestamp > max_age}}
        unexpired == SelectItems(previous_counters,
                                 {previous_counters[i].key : i \in 1..Len(previous_counters)}
                                    \ expired_ports)
        sorted_counters == SortedItems(unexpired)
        over == Len(unexpired) > max_counters
        to_keep == SubSeq(sorted_counters, 1, max_counters)
        excess == IF over THEN Len(sorted_counters) - Len(to_keep) ELSE 0
        left == IF over THEN to_keep ELSE unexpired
    IN [previous_counters |-> left,
        stats |-> [expired_counters |-> Cardinality(expired_ports),
                   excess_counters |-> excess,
                   total_cleaned |-> Cardinality(expired_ports) + excess,
                   remaining_counters |-> Len(left)]]

CountersInit ==
    /\ MgrInit
    /\ col = NoCol
    /\ opLog = <<>>
    /\ gr = NoWalk
    /\ dp = NoDisc
    /\ wr = NoWriter
    /\ cl = NoCleanup
    /\ sc = NoSched
    /\ \E n \in 0..MaxCached :
         \E cache \in CachesOf(n), max_age \in 0..MaxCounterAge, max_counters \in 0..MaxCached :
            pr = [pc |-> "cleanup", previous_counters |-> cache, before |-> cache,
                  current_time |-> CountersNow, max_age |-> max_age,
                  max_counters |-> max_counters,
                  stats |-> [expired_counters |-> 0, excess_counters |-> 0,
                             total_cleaned |-> 0, remaining_counters |-> 0]]

\* one call of cleanup_old_counters(max_age, max_counters)
CleanupOldCounters ==
    /\ pr.pc = "cleanup"
    /\ LET r == cleanup_old_counters(pr.previous_counters, pr.current_time,
                                     pr.max_age, pr.max_counters)
       IN pr' = [pr EXCEPT !.pc = "cleaned", !.previous_counters = r.previous_counters,
                           !.stats = r.stats]
    /\ UNCHANGED <<active_requests, pc, ex, ret, lastOp, hist, col, opLog, gr, dp, wr, cl, sc>>

CountersNext == CleanupOldCounters

SpecCounters == CountersInit /\ [][CountersNext]_vars

\* the counters of a cache, and those the call took out for age and for count
ItemsOf(seq) == {seq[i] : i \in 1..Len(seq)}
ExpiredBefore == {c \in ItemsOf(pr.before) : pr.current_time - c.timestamp > pr.max_age}
EvictedForCount == (ItemsOf(pr.before) \ ExpiredBefore) \ ItemsOf(pr.previous_counters)

\* C25: after cleanup_old_counters has returned, no counter left is older
\* than max_age, at most max_counters are left, each counter left was in
\* the cache before with the same timestamp, every counter evicted for
\* count is no newer than every counter kept, the stats add up
\* (total_cleaned = expired + excess, remaining = counters left, expired and
\* excess count what was taken out for age and for count), and a cache
\* with no counter too old and within max_counters is left as it was.
C25_CountersPruned ==
    pr.pc = "cleaned" =>
        /\ \A c \in ItemsOf(pr.previous_counters) : pr.current_time - c.timestamp <= pr.max_age
        /\ Len(pr.previous_counters) <= pr.max_counters
        /\ ItemsOf(pr.previous_counters) \subseteq ItemsOf(pr.before)
        /\ Cardinality(ItemsOf(pr.previous_counters)) = Len(pr.previous_counters)
        /\ ItemsOf(pr.before) \cap ExpiredBefore \cap ItemsOf(pr.previous_counters) = {}
        /\ \A e \in EvictedForCount, k \in ItemsOf(pr.previous_counters) :
              e.timestamp <= k.timestamp
        /\ pr.stats.expired_counters = Cardinality(ExpiredBefore)
        /\ pr.stats.excess_counters = Cardinality(EvictedForCount)
        /\ pr.stats.total_cleaned = pr.stats.expired_counters + pr.stats.excess_counters
        /\ pr.stats.remaining_counters = Len(pr.previous_counters)
        /\ Len(pr.before) = pr.stats.total_cleaned + pr.stats.remaining_counters
        /\ (ExpiredBefore = {} /\ Len(pr.before) <= pr.max_counters)
              => pr.previous_counters = pr.before

\* C25 witness: a call took out one counter for age and one for count and
\* kept the newest.
C25_Witness ==
    /\ pr.pc = "cleaned"
    /\ pr.stats.expired_counters = 1
    /\ pr.stats.excess_counters = 1
    /\ pr.stats.remaining_counters = 1
    /\ \E e \in EvictedForCount, k \in ItemsOf(pr.previous_counters) :
          e.timestamp < k.timestamp

(***************************************************************************)
(* InfluxDBWriter._convert_to_point                                        *)
(*                                                                        *)
(* wr.fields is record['fields'], field name -> value; wr.point the fields *)
(* of the Point built from it.  A field name is the sequence of its words  *)
(* (bytes_in_rate is <<"bytes", "in", "rate">>), a value is [kind, n] with *)
(* kind "none", "bool", "int", "float" or "str".  1e12 is scaled to        *)
(* RateCeiling.                                                            *)
(***************************************************************************)
\* the 1e12 of `if field_value > 1e12`, scaled
RateCeiling == 4
\* numeric field values are in -MaxNegative..MaxFieldValue
MaxFieldValue == 6
MaxNegative == 2

FieldKeys == {<<"bytes", "in", "rate">>, <<"rate", "limit">>, <<"bandwidth">>}

FieldNumbers == (0 - MaxNegative)..MaxFieldValue

FieldValues ==
    {[kind |-> "none", n |-> 0], [kind |-> "str", n |-> 0]}
       \cup [kind : {"bool"}, n : {0, 1}]
       \cup [kind : {"int", "float"}, n : FieldNumbers]

\* Point.field was not called for the key
NoField == [kind |-> "absent", n |-> 0]

\* field_key.endswith('_rate')
EndsWithRate(field_key) == field_key[Len(field_key)] = "rate"

\* a guard that clamps a value above the ceiling to the ceiling
RateGuard_mut(n) ==
    IF n < 0 THEN 0 ELSE IF n > RateCeiling THEN RateCeiling ELSE n

\* field_value = max(0.0, float(field_value)), then
\* `if field_value > 1e12: field_value = 0.0`
RateGuard(n) ==
    LET floored == IF 0 >= n THEN 0 ELSE n
    IN IF floored > RateCeiling THEN 0 ELSE floored

\* the value Point.field is given for one field of the record
PointField(field_key, field_value) ==
    IF field_value.kind = "none" THEN NoField
    ELSE IF field_value.kind = "bool" THEN field_value
    ELSE IF field_value.kind \in {"int", "float"}
    THEN IF EndsWithRate(field_key)
         THEN [kind |-> "float", n |-> RateGuard(field_value.n)]
         ELSE field_value
    ELSE [kind |-> "str", n |-> field_value.n]

\* the fields of the Point _convert_to_point returns
convert_to_point(fields) == [k \in FieldKeys |-> PointField(k, fields[k])]

PointInit ==
    /\ MgrInit
    /\ col = NoCol
    /\ opLog = <<>>
    /\ gr = NoWalk
    /\ pr = NoProc
    /\ dp = NoDisc
    /\ cl = NoCleanup
    /\ sc = NoSched
    /\ \E fields \in [FieldKeys -> FieldValues] :
         wr = [pc |-> "convert", fields |-> fields, point |-> [k \in FieldKeys |-> NoField]]

\* one call of _convert_to_point(record)
ConvertToPoint ==
    /\ wr.pc = "convert"
    /\ wr' = [wr EXCEPT !.pc = "converted", !.point = convert_to_point(wr.fields)]
    /\ UNCHANGED <<active_requests, pc, ex, ret, lastOp, hist, col, opLog, gr, pr, dp, cl, sc>>

PointNext == ConvertToPoint

SpecPoint == PointInit /\ [][PointNext]_vars

Numeric(v) == v.kind \in {"int", "float"}

\* C26 as stated: a numeric field ending in _rate is stored clamped to
\* [0, 1e12] (below 0 as 0, above 1e12 as 1e12, else unchanged); a numeric
\* field without the suffix is stored unchanged.
C26_RateClamped ==
    wr.pc = "converted" =>
        \A k \in FieldKeys :
            Numeric(wr.fields[k]) =>
                IF EndsWithRate(k)
                THEN wr.point[k].n = (IF wr.fields[k].n < 0 THEN 0
                                      ELSE IF wr.fields[k].n > RateCeiling THEN RateCeiling
                                      ELSE wr.fields[k].n)
                ELSE wr.point[k] = wr.fields[k]

\* C26 amended: a numeric field ending in _rate is stored as a float that
\* is 0 when the value is below 0, 0 as well when it is above 1e12, and
\* the value itself inside [0, 1e12]; a numeric field without the suffix
\* is stored unchanged, also when its name merely contains "rate".
C26_RateZeroedOutsideRange ==
    wr.pc = "converted" =>
        \A k \in FieldKeys :
            Numeric(wr.fields[k]) =>
                IF EndsWithRate(k)
                THEN /\ wr.point[k].kind = "float"
                     /\ wr.point[k].n = (IF wr.fields[k].n < 0 \/ wr.fields[k].n > RateCeiling
                                         THEN 0 ELSE wr.fields[k].n)
                ELSE wr.point[k] = wr.fields[k]

\* C26 witness: a rate above the ceiling was stored as 0 while the same
\* value in a field without the suffix was stored as it is.
C26_Witness ==
    /\ wr.pc = "converted"
    /\ wr.fields[<<"bytes", "in", "rate">>] = [kind |-> "float", n |-> RateCeiling + 1]
    /\ wr.point[<<"bytes", "in", "rate">>] = [kind |-> "float", n |-> 0]
    /\ wr.fields[<<"rate", "limit">>] = [kind |-> "float", n |-> RateCeiling + 1]
    /\ wr.point[<<"rate", "limit">>] = [kind |-> "float", n |-> RateCeiling + 1]

(***************************************************************************)
(* TNMSMonitor: start, the scheduler thread and its two jobs               *)
(*                                                                        *)
(* start() runs collect_and_store_data once on the main thread, then       *)
(* start_scheduler registers the basic and the PM job with `schedule` and  *)
(* starts the one thread that loops over schedule.run_pending() and        *)
(* time.sleep(1).  run_pending runs the jobs that are due one after the    *)
(* other on the calling thread, in the order of their next_run, and sets   *)
(* the next_run of a job to its interval after the moment it returned.     *)
(* A collection cycle lasts any number of clock ticks.  sc.active is the   *)
(* set of cycles being run, each with the thread that runs it.             *)
(***************************************************************************)
\* the clock runs from 0 to MaxClock
MaxClock == 6
\* collection.interval and pm_collection.interval, in ticks
BasicInterval == 2
PmInterval == 2

Jobs == <<"basic", "pm">>

IntervalOf(job) == IF job = "basic" THEN BasicInterval ELSE PmInterval

\* sorted(job for job in self.jobs if job.should_run): the jobs whose
\* next_run has come, earliest first, registration order among equals
DueJobs(next_run, now) ==
    LET due(j) == next_run[j] <= now
    IN IF due("basic") /\ due("pm")
       THEN IF next_run["pm"] < next_run["basic"] THEN <<"pm", "basic">>
            ELSE <<"basic", "pm">>
       ELSE IF due("basic") THEN <<"basic">>
       ELSE IF due("pm") THEN <<"pm">>
       ELSE <<>>

SchedInit ==
    /\ MgrInit
    /\ col = NoCol
    /\ opLog = <<>>
    /\ gr = NoWalk
    /\ pr = NoProc
    /\ dp = NoDisc
    /\ wr = NoWriter
    /\ cl = NoCleanup
    /\ sc = [pc |-> "on", main |-> "start", running |-> TRUE, thread |-> "none",
             now |-> 0, next_run |-> [j \in {"basic", "pm"} |-> 0],
             queue |-> <<>>, active |-> {}, slept_at |-> 0, last_end |-> 0,
             last_due |-> 0, cycles |-> 0]

\* time passes
SchedTick ==
    /\ sc.pc = "on"
    /\ sc.now < MaxClock
    /\ sc' = [sc EXCEPT !.now = @ + 1]
    /\ UNCHANGED <<active_requests, pc, ex, ret, lastOp, hist, col, opLog, gr, pr, dp, wr, cl>>

\* start(): the first collect_and_store_data, on the main thread
MainCollectBegin ==
    /\ sc.pc = "on"
    /\ sc.main = "start"
    /\ sc' = [sc EXCEPT !.main = "collect",
                        !.active = @ \cup {[job |-> "basic", thread |-> "main"]},
                        !.last_due = sc.now, !.cycles = @ + 1]
    /\ UNCHANGED <<active_requests, pc, ex, ret, lastOp, hist, col, opLog, gr, pr, dp, wr, cl>>

\* start(): the first collection returns; start_scheduler registers the
\* jobs and starts the scheduler thread
MainStartScheduler ==
    /\ sc.main = "collect"
    /\ sc' = [sc EXCEPT !.main = "wait",
                        !.active = @ \ {[job |-> "basic", thread |-> "main"]},
                        !.last_end = sc.now,
                        !.next_run = [j \in {"basic", "pm"} |-> sc.now + IntervalOf(j)],
                        !.thread = "pending"]
    /\ UNCHANGED <<active_requests, pc, ex, ret, lastOp, hist, col, opLog, gr, pr, dp, wr, cl>>

\* run_scheduler: schedule.run_pending() collects the jobs that are due, or
\* the loop ends because self.running is False
SchedRunPending ==
    /\ sc.thread = "pending"
    /\ IF ~sc.running
       THEN sc' = [sc EXCEPT !.thread = "exit"]
       ELSE sc' = [sc EXCEPT !.thread = "run", !.queue = DueJobs(sc.next_run, sc.now)]
    /\ UNCHANGED <<active_requests, pc, ex, ret, lastOp, hist, col, opLog, gr, pr, dp, wr, cl>>

\* a scheduler that starts a due job while another is still running
SchedulerFree_mut(s) == s.thread \in {"run", "job"}

\* run_pending calls the next job only when the one before has returned
SchedulerFree(s) == s.thread = "run"

\* run_pending: job.run() calls the job function
JobBegin ==
    /\ SchedulerFree(sc)
    /\ sc.queue # <<>>
    /\ sc' = [sc EXCEPT !.thread = "job",
                        !.active = @ \cup {[job |-> Head(sc.queue), thread |-> "scheduler"]},
                        !.last_due = sc.next_run[Head(sc.queue)],
                        !.cycles = @ + 1,
                        !.queue = Tail(@)]
    /\ UNCHANGED <<active_requests, pc, ex, ret, lastOp, hist, col, opLog, gr, pr, dp, wr, cl>>

\* the job function returns: last_run = now, next_run = now + interval
JobEnd ==
    /\ sc.thread = "job"
    /\ \E a \in sc.active :
         /\ a.thread = "scheduler"
         /\ sc' = [sc EXCEPT !.thread = "run",
                             !.active = @ \ {a},
                             !.next_run[a.job] = sc.now + IntervalOf(a.job),
                             !.last_end = sc.now]
    /\ UNCHANGED <<active_requests, pc, ex, ret, lastOp, hist, col, opLog, gr, pr, dp, wr, cl>>

\* run_pending has returned: time.sleep(1)
SchedSleep ==
    /\ sc.thread = "run"
    /\ sc.queue = <<>>
    /\ sc' = [sc EXCEPT !.thread = "sleep", !.slept_at = sc.now]
    /\ UNCHANGED <<active_requests, pc, ex, ret, lastOp, hist, col, opLog, gr, pr, dp, wr, cl>>

\* the sleep is over: back to the head of `while self.running`
SchedWake ==
    /\ sc.thread = "sleep"
    /\ sc.now > sc.slept_at
    /\ sc' = [sc EXCEPT !.thread = "pending"]
    /\ UNCHANGED <<active_requests, pc, ex, ret, lastOp, hist, col, opLog, gr, pr, dp, wr, cl>>

\* stop(): self.running = False, on the main thread
MainStop ==
    /\ sc.main = "wait"
    /\ sc' = [sc EXCEPT !.main = "stopped", !.running = FALSE]
    /\ UNCHANGED <<active_requests, pc, ex, ret, lastOp, hist, col, opLog, gr, pr, dp, wr, cl>>

SchedNext ==
    \/ SchedTick
    \/ MainCollectBegin
    \/ MainStartScheduler
    \/ SchedRunPending
    \/ JobBegin
    \/ JobEnd
    \/ SchedSleep
    \/ SchedWake
    \/ MainStop

SpecSched == SchedInit /\ [][SchedNext]_vars

\* a step in which a collection cycle begins
CycleBegins == sc'.cycles > sc.cycles

\* C29: at most one collection cycle runs at any moment; a cycle begins
\* only when no other is running, not before it is due and not before the
\* cycle before it has returned; and a job counts its interval from the
\* return of its last cycle, so that an overrun moves the next cycle back.
C29_NoOverlappingCycles ==
    /\ [](Cardinality(sc.active) <= 1)
    /\ [][CycleBegins =>
            /\ sc.active = {}
            /\ Cardinality(sc'.active) = 1
            /\ sc.now >= sc'.last_due
            /\ sc.now >= sc.last_end]_vars
    /\ [][(sc.thread = "job" /\ sc'.thread = "run") =>
             \E a \in sc.active : sc'.next_run[a.job] = sc.now + IntervalOf(a.job)]_vars

\* C29 witness: the basic cycle ran past the time the PM cycle was due; the
\* PM cycle is running now, later than due, and alone.
C29_Witness ==
    /\ sc.active = {[job |-> "pm", thread |-> "scheduler"]}
    /\ sc.last_due < sc.last_end
    /\ sc.now > sc.last_due
    /\ sc.now - sc.last_end = 0

====
